---- MODULE Spec2Model ----
(***************************************************************************)
(* A model of the typepad-dl archival pipeline:                            *)
(*   01_get.py            the pager (listing crawl, progress log)          *)
(*   02_posts.py          the concurrent post/media downloader             *)
(*   03_prepare_media.py  the perceptual-hash deduplication pass           *)
(* Each script is a specification of its own (SpecPager, SpecDownloader,   *)
(* SpecDedup) over the files it reads and writes.                          *)
(***************************************************************************)
EXTENDS Integers, Sequences, FiniteSets, TLC

(***************************************************************************)
(* Bounds of the model                                                     *)
(***************************************************************************)
\* listing pages the source holds; every page number above it answers 404
MaxPage == 2
\* runs of the pager against the same source and the same files
MaxPagerRuns == 2
\* passing faults (a 5xx answer that is not the settled answer of the page
\* asked for) the source may give during one run of the pager
MaxTransient == 1
\* runs of the downloader against the same source and the same files
MaxDlRuns == 2
\* lines of permalinks.txt when the downloader starts
MaxBacklog == 2
\* files under the posts directory when the dedup pass starts
MaxFiles == 4
\* entries of file_map.json when the WordPress file is made
MaxEntries == 2
\* elements of the content of a post
MaxNodes == 1
\* successive applications of process_content to a post's content
MaxPasses == 2

(***************************************************************************)
(* Program constants of 01_get.py                                          *)
(***************************************************************************)
START_PAGE == 1
max_retries == 5

\* the value None of Python
None == [kind |-> "None"]
\* the markers main() puts in response_content in place of a page's markup
STOP == [kind |-> "STOP"]
SKIP == [kind |-> "SKIP"]

(***************************************************************************)
(* The source site as the pager sees it.  A response is either a transport *)
(* exception or an HTTP status with, for a 200, the listing page's markup: *)
(* its 'next' control and its anchors.                                     *)
(***************************************************************************)
\* post URLs that listing pages link to
PostUrls == {"u1", "u2"}

Href(kind, page) == [kind |-> kind, page |-> page]

\* the element selected by 'div.pager-inner span.pager-right a' on page p, if
\* any: found, whether its text holds 'next' or the » sign, and its href
\* ("none": no href attribute, "nomatch": no /page/<n>/ at its end, "page":
\* the page number at its end: the first page, p itself, p + 1 or p + 2)
NextControls(p) ==
    {[found |-> FALSE, forward |-> FALSE, href |-> Href("none", 0)],
     [found |-> TRUE, forward |-> FALSE, href |-> Href("page", p + 1)],
     [found |-> TRUE, forward |-> TRUE, href |-> Href("none", 0)],
     [found |-> TRUE, forward |-> TRUE, href |-> Href("nomatch", 0)]}
    \cup {[found |-> TRUE, forward |-> TRUE, href |-> Href("page", t)] : t \in {1, p, p + 1, p + 2}}

\* an anchor with an href: whether its text is exactly 'Permalink', whether
\* its resolved URL starts with the blog prefix, whether its href holds a
\* /YYYY/MM/<name>.html segment, and the resolved URL
Anchor(marker, inPrefix, dated, url) ==
    [marker |-> marker, inPrefix |-> inPrefix, dated |-> dated, bare |-> FALSE,
     url |-> url]

\* an anchor of the blog with another text whose href is /YYYY/MM/<name>,
\* without the .html ending that post_pattern asks for
BareDatedAnchor(url) ==
    [marker |-> FALSE, inPrefix |-> TRUE, dated |-> FALSE, bare |-> TRUE, url |-> url]

AnchorSets ==
    { {},
      {Anchor(TRUE, TRUE, TRUE, "u1"), Anchor(FALSE, TRUE, TRUE, "u2")},
      {Anchor(TRUE, FALSE, TRUE, "u1"), Anchor(FALSE, TRUE, TRUE, "u2")},
      {Anchor(TRUE, FALSE, FALSE, "u1")},
      {Anchor(FALSE, TRUE, TRUE, "u2"), BareDatedAnchor("u1")} }

ListingHtml(p) == [next : NextControls(p), anchors : AnchorSets]

Exc == [exc |-> TRUE, status_code |-> 0, html |-> None]
Status(code) == [exc |-> FALSE, status_code |-> code, html |-> None]
Ok(html) == [exc |-> FALSE, status_code |-> 200, html |-> html]

\* the settled answers listing page p can have
PageAnswers(p) ==
    {Ok(h) : h \in ListingHtml(p)} \cup {Status(404), Status(403), Status(503), Exc}
\* the answer the source may also give as a passing fault
TransientAnswers == {Status(503)}

VARIABLES
    \* --- files on disk shared by the scripts ---
    scannedFile,        \* scanned.txt: the page numbers, one per line
    permalinksFile,     \* permalinks.txt: the post URLs, one per line
    \* --- 01_get.py main() ---
    pagerPc,            \* "idle", "loop", "fetch", "after", "done"
    pagerRun,           \* number of the run of the pager
    scanned_pages,      \* the set read from scanned.txt when the run started
    page_num,
    retries,
    response_content,   \* None, STOP, SKIP or the markup of the page
    \* --- the source and what was asked of it ---
    pageSource,         \* settled answer of each listing page, None until asked
    transientUsed,      \* passing faults injected in this run
    requested,          \* the GET requests of this run: page and response
    \* --- files on disk of 02_posts.py ---
    permalinksExists,   \* whether permalinks.txt exists
    downloadedLog,      \* downloaded_permalinks.txt: the post URLs, one per line
    htmlFiles,          \* posts/<name>.html: the names of the post files
    mediaFiles,         \* posts/<name>/<file>: the media of each post
    assetFiles,         \* posts/assets/<file>
    \* --- 02_posts.py main() and its worker tasks ---
    dlPc,               \* "idle", "running", "done"
    dlRun,              \* number of the run of the downloader
    dlOutcome,          \* how main() ended: "none", "all_downloaded", "finished", "interrupted"
    urls_to_process_with_index,
    task,               \* the process_url call of each submitted URL
    file_lock,          \* holder of the threading.Lock, or NoHolder
    total_stats,
    runStart,           \* the log, the post files and the tasks when the run began
    \* --- files on disk of 03_prepare_media.py ---
    sourceExists,       \* whether the posts directory exists
    walk,               \* the files under posts/ in the order of os.walk
    store,              \* wordpress_export/typepad_media: name and copied file
    mapFile,            \* file_map.json, None until written
    \* --- 03_prepare_media.py main() ---
    dedupPc,            \* "idle", "loop", "done"
    files_to_process,
    dedupIdx,           \* position of the loop in files_to_process
    processed_hashes,   \* the dict in insertion order: hash and filename
    file_map,           \* original path -> new filename
    \* --- 04_create_wordpress_file.py ---
    rwPc,               \* "idle", "ready", "done"
    mapFileExists,      \* whether file_map.json exists
    mapEntries,         \* file_map.json as json.load gives it: entries in order
    args,               \* blog_url given or not, and the three toggles
    stem_map,
    basename_map,
    local_file_slug,    \* the name of the post file without '.html'
    entry_body,         \* the content element of the post, as parsed
    outputs             \* what successive calls of process_content returned

pagerVars == <<scannedFile, permalinksFile, pagerPc, pagerRun, scanned_pages,
               page_num, retries, response_content, pageSource, transientUsed,
               requested>>

\* the variables of the downloader that the pager does not touch
dlOwnVars == <<downloadedLog, htmlFiles, mediaFiles, assetFiles, dlPc, dlRun,
               dlOutcome, urls_to_process_with_index, task, file_lock,
               total_stats, runStart>>

\* the variables of the pager that the downloader does not touch
pagerOwnVars == <<scannedFile, pagerPc, pagerRun, scanned_pages, page_num, retries,
                  response_content, pageSource, transientUsed, requested>>

dedupVars == <<sourceExists, walk, store, mapFile, dedupPc, files_to_process,
               dedupIdx, processed_hashes, file_map>>

rwVars == <<rwPc, mapFileExists, mapEntries, args, stem_map, basename_map,
            local_file_slug, entry_body, outputs>>

vars == <<pagerVars, permalinksExists, dlOwnVars, dedupVars, rwVars>>

(***************************************************************************)
(* 01_get.py: helpers                                                      *)
(***************************************************************************)
Range(s) == {s[i] : i \in DOMAIN s}

\* a run that does not read scanned.txt
get_no_scanned_pages == {}

\* get_already_scanned_pages: the set of the page numbers in scanned.txt
get_already_scanned_pages == Range(scannedFile)

\* extract_permalinks_default: anchors with the text 'Permalink' whose
\* resolved URL starts with the blog's prefix
extract_permalinks_default(html) ==
    {a.url : a \in {b \in html.anchors : b.marker /\ b.inPrefix}}

\* extract_permalinks_alternative: anchors whose href has the dated shape,
\* whatever their text and prefix
extract_permalinks_alternative(html) ==
    {a.url : a \in {b \in html.anchors : b.dated}}

\* the permalinks of a page with the alternative method run on every page
ExtractBoth(html) ==
    extract_permalinks_default(html) \cup extract_permalinks_alternative(html)

\* the permalinks main() saves for a page: the default method, and the
\* alternative one only when the default finds nothing
ExtractWithFallback(html) ==
    IF extract_permalinks_default(html) # {}
    THEN extract_permalinks_default(html)
    ELSE extract_permalinks_alternative(html)

\* check_for_next_page without the sanity check of the target page number
check_for_next_page_unchecked(html, current_page_num) ==
    /\ html.next.found
    /\ html.next.forward
    /\ html.next.href.kind = "page"

\* check_for_next_page: the control exists, its text indicates forward
\* navigation, its href ends in /page/<n>/ and n is current_page_num + 1
check_for_next_page(html, current_page_num) ==
    /\ html.next.found
    /\ html.next.forward
    /\ html.next.href.kind = "page"
    /\ html.next.href.page = current_page_num + 1

\* all the orders in which the elements of a set can be written
Orderings(S) ==
    {s \in [1..Cardinality(S) -> S] : \A i, j \in 1..Cardinality(S) : i # j => s[i] # s[j]}

\* the answer of the source to a GET of a listing page
PageAnswer(p) == IF p > MaxPage THEN Status(404) ELSE pageSource[p]

(***************************************************************************)
(* 01_get.py: main()                                                       *)
(***************************************************************************)
\* a run starts: scanned.txt is read, the crawl starts at START_PAGE
PagerStart ==
    /\ pagerPc \in {"idle", "done"}
    /\ pagerRun < MaxPagerRuns
    /\ pagerRun' = pagerRun + 1
    /\ scanned_pages' = get_already_scanned_pages
    /\ page_num' = START_PAGE
    /\ retries' = 0
    /\ response_content' = None
    /\ transientUsed' = 0
    /\ requested' = <<>>
    /\ pagerPc' = "loop"
    /\ UNCHANGED <<scannedFile, permalinksFile, pageSource>>
    /\ UNCHANGED <<permalinksExists, dlOwnVars, dedupVars, rwVars>>

\* 'if page_num in scanned_pages: page_num += 1; continue'
PagerStepOver ==
    /\ pagerPc = "loop"
    /\ page_num \in scanned_pages
    /\ page_num' = page_num + 1
    /\ UNCHANGED <<scannedFile, permalinksFile, pagerPc, pagerRun, scanned_pages,
                   retries, response_content, pageSource, transientUsed, requested>>
    /\ UNCHANGED <<permalinksExists, dlOwnVars, dedupVars, rwVars>>

\* the page is not in the log: the retry loop is entered
PagerBeginFetch ==
    /\ pagerPc = "loop"
    /\ page_num \notin scanned_pages
    /\ retries' = 0
    /\ response_content' = None
    /\ pagerPc' = "fetch"
    /\ UNCHANGED <<scannedFile, permalinksFile, pagerRun, scanned_pages, page_num,
                   pageSource, transientUsed, requested>>
    /\ UNCHANGED <<permalinksExists, dlOwnVars, dedupVars, rwVars>>

\* the retry loop with an unexpected status handled like a server error:
\* the page is requested again
AfterResponseRetriesAll(r) ==
    IF ~r.exc /\ r.status_code = 200 THEN
        /\ response_content' = r.html
        /\ retries' = retries
        /\ pagerPc' = "after"
    ELSE IF ~r.exc /\ r.status_code = 404 THEN
        /\ response_content' = STOP
        /\ retries' = retries
        /\ pagerPc' = "after"
    ELSE
        /\ retries' = retries + 1
        /\ response_content' = response_content
        /\ pagerPc' = IF retries + 1 < max_retries THEN "fetch" ELSE "after"

\* the retry loop with a 404 handled like any unexpected status (a skip)
AfterResponseNotFoundSkips(r) ==
    IF r.exc \/ (500 <= r.status_code /\ r.status_code < 600) THEN
        /\ retries' = retries + 1
        /\ response_content' = response_content
        /\ pagerPc' = IF retries + 1 < max_retries THEN "fetch" ELSE "after"
    ELSE
        /\ response_content' = IF r.status_code = 200 THEN r.html ELSE SKIP
        /\ retries' = retries
        /\ pagerPc' = "after"

\* what one pass of the retry loop does with the response r
AfterResponse(r) ==
    IF r.exc THEN
        /\ retries' = retries + 1
        /\ response_content' = response_content
        /\ pagerPc' = IF retries + 1 < max_retries THEN "fetch" ELSE "after"
    ELSE IF r.status_code = 200 THEN
        /\ response_content' = r.html
        /\ retries' = retries
        /\ pagerPc' = "after"
    ELSE IF r.status_code = 404 THEN
        /\ response_content' = STOP
        /\ retries' = retries
        /\ pagerPc' = "after"
    ELSE IF 500 <= r.status_code /\ r.status_code < 600 THEN
        /\ retries' = retries + 1
        /\ response_content' = response_content
        /\ pagerPc' = IF retries + 1 < max_retries THEN "fetch" ELSE "after"
    ELSE
        /\ response_content' = SKIP
        /\ retries' = retries
        /\ pagerPc' = "after"

\* one session.get of the page, answered with the page's settled answer
\* (settled at the first request of the page)
PagerRequest ==
    /\ pagerPc = "fetch"
    /\ retries < max_retries
    /\ \E r \in PageAnswers(page_num) :
        /\ IF PageAnswer(page_num) = None THEN TRUE ELSE r = PageAnswer(page_num)
        /\ pageSource' = IF page_num <= MaxPage
                         THEN [pageSource EXCEPT ![page_num] = r]
                         ELSE pageSource
        /\ requested' = Append(requested, [page |-> page_num, response |-> r])
        /\ AfterResponse(r)
    /\ UNCHANGED <<scannedFile, permalinksFile, pagerRun, scanned_pages, page_num,
                   transientUsed>>
    /\ UNCHANGED <<permalinksExists, dlOwnVars, dedupVars, rwVars>>

\* one session.get of the page, answered with a passing fault
PagerRequestFault ==
    /\ pagerPc = "fetch"
    /\ retries < max_retries
    /\ transientUsed < MaxTransient
    /\ page_num <= MaxPage
    /\ \E r \in TransientAnswers :
        /\ requested' = Append(requested, [page |-> page_num, response |-> r])
        /\ AfterResponse(r)
    /\ transientUsed' = transientUsed + 1
    /\ UNCHANGED <<scannedFile, permalinksFile, pagerRun, scanned_pages, page_num,
                   pageSource>>
    /\ UNCHANGED <<permalinksExists, dlOwnVars, dedupVars, rwVars>>

\* the loop without its 'break' on STOP: it is left on SKIP only, and a
\* not-found answer ends nothing
PagerStopOnSkipOnly ==
    /\ pagerPc = "after"
    /\ response_content = SKIP
    /\ pagerPc' = "done"
    /\ UNCHANGED <<scannedFile, permalinksFile, pagerRun, scanned_pages, page_num,
                   retries, response_content, pageSource, transientUsed, requested>>
    /\ UNCHANGED <<permalinksExists, dlOwnVars, dedupVars, rwVars>>

\* 'if response_content == "STOP": break'
PagerStop ==
    /\ pagerPc = "after"
    /\ response_content = STOP
    /\ pagerPc' = "done"
    /\ UNCHANGED <<scannedFile, permalinksFile, pagerRun, scanned_pages, page_num,
                   retries, response_content, pageSource, transientUsed, requested>>
    /\ UNCHANGED <<permalinksExists, dlOwnVars, dedupVars, rwVars>>

\* the skip of a page with the page marked as scanned
PagerSkipMarksScanned ==
    /\ pagerPc = "after"
    /\ response_content = SKIP \/ response_content = None
    /\ page_num' = page_num + 1
    /\ pagerPc' = "loop"
    /\ scannedFile' = Append(scannedFile, page_num)
    /\ UNCHANGED <<permalinksFile, pagerRun, scanned_pages,
                   retries, response_content, pageSource, transientUsed, requested>>
    /\ UNCHANGED <<permalinksExists, dlOwnVars, dedupVars, rwVars>>

\* 'if response_content == "SKIP" or response_content is None:
\*      page_num += 1; continue'
PagerSkip ==
    /\ pagerPc = "after"
    /\ response_content = SKIP \/ response_content = None
    /\ page_num' = page_num + 1
    /\ pagerPc' = "loop"
    /\ UNCHANGED <<scannedFile, permalinksFile, pagerRun, scanned_pages,
                   retries, response_content, pageSource, transientUsed, requested>>
    /\ UNCHANGED <<permalinksExists, dlOwnVars, dedupVars, rwVars>>

\* a successful fetch: the permalinks are extracted and appended to
\* permalinks.txt, the page is marked as scanned, and the crawl goes on to
\* page_num + 1 only if the page has a valid 'next' link
PagerProcess ==
    /\ pagerPc = "after"
    /\ response_content \notin {STOP, SKIP, None}
    /\ LET permalinks == ExtractWithFallback(response_content)
       IN  \E order \in Orderings(permalinks) :
               permalinksFile' = permalinksFile \o order
    /\ scannedFile' = Append(scannedFile, page_num)
    /\ IF check_for_next_page(response_content, page_num)
       THEN /\ page_num' = page_num + 1
            /\ pagerPc' = "loop"
       ELSE /\ page_num' = page_num
            /\ pagerPc' = "done"
    /\ UNCHANGED <<pagerRun, scanned_pages, retries, response_content, pageSource,
                   transientUsed, requested>>
    /\ permalinksExists' = (permalinksExists \/ ExtractWithFallback(response_content) # {})
    /\ UNCHANGED <<dlOwnVars, dedupVars, rwVars>>

(***************************************************************************)
(* 02_posts.py: constants, the posts of the source and their media         *)
(***************************************************************************)
MAX_WORKERS == 8
MAX_RETRIES == 3

NoHolder == "nobody"
NoExt == ""

\* a link of a post's content: whether it is empty, whether it holds
\* '.typepad.com/' and '.typepad.com/.a/', whether it ends in a thumbnail
\* suffix -<n>wi, and the basename and extension of its URL path
Link(platform, dotA, thumb, base, ext) ==
    [empty |-> FALSE, platform |-> platform, dotA |-> dotA, thumb |-> thumb,
     base |-> base, ext |-> ext]

\* a tag of the content region: an <img> (with its src) or an <a> (with its href)
Img(link) == [is_image |-> TRUE, link |-> link]
A(link) == [is_image |-> FALSE, link |-> link]

\* an image served by the platform through a thumbnail URL without extension,
\* a link to a platform asset with an extension, a link to another site
ThumbImage == Img(Link(TRUE, TRUE, TRUE, "m1", NoExt))
AssetLink == A(Link(TRUE, TRUE, FALSE, "m2", ".pdf"))
OtherLink == A(Link(FALSE, FALSE, FALSE, "x", ".html"))

\* the markup of a post: whether a content container is found, the
\* stylesheets, scripts and icons the page references, and the <img> and <a>
\* tags of its content
PostHtml(content_div, asset, media) ==
    [content_div |-> content_div, asset |-> asset, media |-> media]

\* the markup the post at URL u can have: "u1" is a post with media in its
\* content, "u2" a post of text only
PostHtmls(u) ==
    IF u = "u1"
    THEN {PostHtml(FALSE, {}, <<>>),
          PostHtml(TRUE, {"css"}, <<ThumbImage, AssetLink>>),
          PostHtml(TRUE, {}, <<OtherLink>>)}
    ELSE {PostHtml(TRUE, {"css"}, <<>>)}

\* the markup of a post that references a stylesheet and a script, without
\* and with an image in its content
AssetPages ==
    {PostHtml(TRUE, {"css", "js"}, <<>>), PostHtml(TRUE, {"css", "js"}, <<ThumbImage>>)}

\* the answers the post URL u can give to a GET
PostAnswers(u) ==
    {Ok(h) : h \in PostHtmls(u)} \cup {Status(404), Status(403), Status(503), Exc}

\* the answers of a post whose pages reference two assets
AssetPageAnswers == {Ok(h) : h \in AssetPages} \cup {Status(404), Exc}

\* the answers to the HEAD and to the GET of a media file
HeadResponse(code, content_type) ==
    [exc |-> FALSE, status_code |-> code, content_type |-> content_type]
HeadExc == [exc |-> TRUE, status_code |-> 0, content_type |-> ""]
HeadAnswers ==
    {HeadExc, HeadResponse(404, ""), HeadResponse(200, "image/png"),
     HeadResponse(200, "text/html")}

GetResponse(code, content) == [exc |-> FALSE, status_code |-> code, content |-> content]
GetExc == [exc |-> TRUE, status_code |-> 0, content |-> ""]
GetAnswers ==
    {GetExc, GetResponse(404, ""), GetResponse(403, ""), GetResponse(503, ""),
     GetResponse(200, "GIF89a"), GetResponse(200, "%PDF"),
     GetResponse(200, "plain")}

ZeroStats == [posts_processed |-> 0, media_downloaded |-> 0, media_failed |-> 0]

\* modified_html before download_page_assets was called and after it was
\* parsed: whether the resolver threw (the raw markup is kept) and the asset
\* references that were rewritten to files under assets/
NoMarkup == [threw |-> FALSE, rewritten |-> {}]

\* a process_url call that was not submitted; `last` is the kind of the
\* answer to the latest request of the retry loop the call is in, or of the
\* download_file call it has just left
NoTask ==
    [pc |-> "none", post_index |-> 0, attempt |-> 0, html |-> None, i |-> 0,
     dl |-> 0, last |-> "none", modified_html |-> NoMarkup,
     assets_downloaded |-> {}, stats |-> ZeroStats,
     exit |-> "none", collected |-> FALSE]

(***************************************************************************)
(* 02_posts.py: helpers                                                    *)
(***************************************************************************)
\* get_post_urls: the lines of permalinks.txt, [] when the file is missing
get_post_urls == IF permalinksExists THEN permalinksFile ELSE <<>>

\* a run that does not read the log
get_no_downloaded_urls == {}

\* get_already_downloaded_urls: the set of the lines of the log
get_already_downloaded_urls == Range(downloadedLog)

\* main(): 'Deduplicate URLs while preserving order'
RECURSIVE Deduplicate(_)
Deduplicate(urls) ==
    IF urls = <<>> THEN <<>>
    ELSE LET front == Deduplicate(SubSeq(urls, 1, Len(urls) - 1))
             last == urls[Len(urls)]
         IN  IF last \in Range(front) THEN front ELSE Append(front, last)

\* the working set numbered after the filter on the log: the ordinal of a
\* URL is its position among the URLs that are left to process
UrlsToProcessRenumbered(unique_ordered_urls, downloaded_urls) ==
    LET kept == {i \in DOMAIN unique_ordered_urls :
                    unique_ordered_urls[i] \notin downloaded_urls}
    IN  [u \in {unique_ordered_urls[i] : i \in kept} |->
            Cardinality({i \in kept :
                i < (CHOOSE j \in kept : unique_ordered_urls[j] = u)})]

\* the working set without the filter on the log: every unique URL
UrlsToProcessUnfiltered(unique_ordered_urls, downloaded_urls) ==
    [u \in Range(unique_ordered_urls) |->
        (CHOOSE i \in DOMAIN unique_ordered_urls : unique_ordered_urls[i] = u) - 1]

\* main(): {url: i for i, url in enumerate(unique_ordered_urls)
\*          if url not in downloaded_urls}
UrlsToProcess(unique_ordered_urls, downloaded_urls) ==
    LET kept == {i \in DOMAIN unique_ordered_urls :
                    unique_ordered_urls[i] \notin downloaded_urls}
    IN  [u \in {unique_ordered_urls[i] : i \in kept} |->
            (CHOOSE i \in kept : unique_ordered_urls[i] = u) - 1]

\* generate_filename_from_url: the ordinal of the post and the slug of its URL
generate_filename_from_url(url, post_index) == [idx |-> post_index, slug |-> url]

\* get_file_extension_from_content_type
get_file_extension_from_content_type(content_type) ==
    CASE content_type = "image/png" -> ".png"
      [] content_type = "image/gif" -> ".gif"
      [] content_type = "application/pdf" -> ".pdf"
      [] OTHER -> NoExt

\* detect_file_extension_from_content; a body is named by the signature it
\* begins with, and the four tests below are all the function makes
detect_file_extension_from_content(content) ==
    CASE content = "JPEG" -> ".jpg"
      [] content = "PNG" -> ".png"
      [] content \in {"GIF87a", "GIF89a"} -> ".gif"
      [] content = "RIFF WEBP" -> ".webp"
      [] OTHER -> NoExt

\* media_filename and media_save_path of the i-th tag of a post
MediaSavePath(name, ref) == [dir |-> name, base |-> ref.link.base, ext |-> ref.link.ext]

\* final_save_path with the signature of the body consulted before the
\* declared content type
FinalSavePathSignatureFirst(save_path, head, get) ==
    LET fromHead == IF ~head.exc /\ head.status_code = 200
                    THEN get_file_extension_from_content_type(head.content_type)
                    ELSE NoExt
        fromBody == detect_file_extension_from_content(get.content)
        extension == IF fromBody # NoExt THEN fromBody ELSE fromHead
    IN  IF extension # NoExt /\ save_path.ext = NoExt
        THEN [save_path EXCEPT !.ext = extension]
        ELSE save_path

\* download_file: final_save_path for a 200 answer
FinalSavePath(save_path, head, get) ==
    LET fromHead == IF ~head.exc /\ head.status_code = 200
                    THEN get_file_extension_from_content_type(head.content_type)
                    ELSE NoExt
        extension == IF fromHead # NoExt THEN fromHead
                     ELSE detect_file_extension_from_content(get.content)
    IN  IF extension # NoExt /\ save_path.ext = NoExt
        THEN [save_path EXCEPT !.ext = extension]
        ELSE save_path

\* the kind of an answer, as the retry loops tell answers apart
Kind(r) ==
    IF r.exc THEN "exception"
    ELSE IF r.status_code = 200 THEN "ok"
    ELSE IF r.status_code = 404 THEN "not_found"
    ELSE IF r.status_code >= 500 /\ r.status_code < 600 THEN "server_error"
    ELSE "other_status"

\* the kind of the answer that decided a pass of download_file: the HEAD when
\* it answered 404 (no GET is sent), the GET otherwise
PassKind(head, get) ==
    IF ~head.exc /\ head.status_code = 404 THEN "not_found" ELSE Kind(get)

\* one pass of the loop of download_file with a 404 handled like any other
\* unexpected status: the pass is made again
AttemptOutcomeRetriesNotFound(head, get, fail_fast_on_500) ==
    IF get.exc THEN "retry"
    ELSE IF get.status_code = 200 THEN "true"
    ELSE IF get.status_code >= 500 /\ get.status_code < 600 /\ fail_fast_on_500 THEN "false"
    ELSE "retry"

\* one pass of the loop of download_file without the fail-fast branch: a
\* 5xx answer is tried again whatever the option
AttemptOutcomeNoFailFast(head, get, fail_fast_on_500) ==
    IF ~head.exc /\ head.status_code = 404 THEN "false"
    ELSE IF get.exc THEN "retry"
    ELSE IF get.status_code = 200 THEN "true"
    ELSE IF get.status_code = 404 THEN "false"
    ELSE "retry"

\* the outcome of one pass of the loop of download_file: "true" (file
\* written, return True), "false" (return False) or "retry"
AttemptOutcome(head, get, fail_fast_on_500) ==
    IF ~head.exc /\ head.status_code = 404 THEN "false"
    ELSE IF get.exc THEN "retry"
    ELSE IF get.status_code = 200 THEN "true"
    ELSE IF get.status_code >= 500 /\ get.status_code < 600 /\ fail_fast_on_500 THEN "false"
    ELSE IF get.status_code = 404 THEN "false"
    ELSE "retry"

\* the tags of the loop over all_media_tags that are not media references
NotMedia(ref) == ref.link.empty \/ (~ref.is_image /\ ~ref.link.dotA)

\* 'if is_image and ".typepad.com/" in link' and the cleaned URL differs
HasCleanedUrl(ref) == ref.is_image /\ ref.link.platform /\ ref.link.thumb

Running == {u \in PostUrls : task[u].pc \notin {"none", "queued", "returned", "raised"}}

(***************************************************************************)
(* 02_posts.py: main()                                                     *)
(***************************************************************************)
\* main() up to the submission of the tasks
DlStart ==
    /\ dlPc \in {"idle", "done"}
    /\ dlRun < MaxDlRuns
    /\ dlRun' = dlRun + 1
    /\ LET todo == UrlsToProcess(Deduplicate(get_post_urls), get_already_downloaded_urls)
       IN  /\ urls_to_process_with_index' = todo
           /\ IF DOMAIN todo = {}
              THEN /\ dlPc' = "done"
                   /\ dlOutcome' = "all_downloaded"
                   /\ task' = [u \in PostUrls |-> NoTask]
              ELSE /\ dlPc' = "running"
                   /\ dlOutcome' = "none"
                   /\ task' = [u \in PostUrls |->
                                 IF u \in DOMAIN todo
                                 THEN [NoTask EXCEPT !.pc = "queued", !.post_index = todo[u]]
                                 ELSE NoTask]
    /\ file_lock' = NoHolder
    /\ total_stats' = ZeroStats
    /\ runStart' = [log |-> downloadedLog, htmlFiles |-> htmlFiles,
                    exit |-> [u \in PostUrls |-> task[u].exit]]
    /\ UNCHANGED <<permalinksFile, permalinksExists, downloadedLog, htmlFiles,
                   mediaFiles, assetFiles, pagerOwnVars, dedupVars, rwVars>>

\* a worker takes a task of the working set whether or not a worker has run
\* it before
TaskBeginTakesFinished(u) ==
    /\ dlPc \in {"running", "interrupted"}
    /\ task[u].pc \in {"queued", "returned"}
    /\ Cardinality(Running) < MAX_WORKERS
    /\ task' = [task EXCEPT ![u].pc = "fetch"]
    /\ UNCHANGED <<permalinksFile, permalinksExists, downloadedLog, htmlFiles,
                   mediaFiles, assetFiles, dlPc, dlRun, dlOutcome,
                   urls_to_process_with_index, file_lock, total_stats, runStart,
                   pagerOwnVars, dedupVars, rwVars>>

\* a worker of the pool takes a submitted task; the workers go on taking
\* the queued tasks while main() waits in the exit of the executor after a
\* KeyboardInterrupt (shutdown(wait=True) cancels no future)
TaskBegin(u) ==
    /\ dlPc \in {"running", "interrupted"}
    /\ task[u].pc = "queued"
    /\ Cardinality(Running) < MAX_WORKERS
    /\ task' = [task EXCEPT ![u].pc = "fetch"]
    /\ UNCHANGED <<permalinksFile, permalinksExists, downloadedLog, htmlFiles,
                   mediaFiles, assetFiles, dlPc, dlRun, dlOutcome,
                   urls_to_process_with_index, file_lock, total_stats, runStart,
                   pagerOwnVars, dedupVars, rwVars>>

\* the loop that fetches the post's HTML with a post that could not be
\* fetched within MAX_RETRIES passes going on to be logged as downloaded
AfterPostResponseLogsFailure(u, r) ==
    IF ~r.exc /\ r.status_code = 200 THEN
        [task EXCEPT ![u].attempt = 0, ![u].html = r.html, ![u].pc = "save"]
    ELSE IF ~r.exc /\ r.status_code = 404 THEN
        [task EXCEPT ![u].pc = "returned", ![u].exit = "not_found"]
    ELSE IF task[u].attempt + 1 < MAX_RETRIES THEN
        [task EXCEPT ![u].attempt = @ + 1]
    ELSE
        [task EXCEPT ![u].attempt = @ + 1, ![u].pc = "log",
                     ![u].exit = "fetch_failed"]

\* what one pass of the loop that fetches the post's HTML does with response
\* r: a 200 ends the loop, a 404 returns the stats, anything else is tried
\* again until MAX_RETRIES passes were made ('Failed to fetch post HTML').
\* (The loop counter is dead once the loop is left with the markup: it is
\* put back to 0.)
AfterPostResponse(u, r) ==
    IF ~r.exc /\ r.status_code = 200 THEN
        [task EXCEPT ![u].attempt = 0, ![u].html = r.html, ![u].pc = "save"]
    ELSE IF ~r.exc /\ r.status_code = 404 THEN
        [task EXCEPT ![u].pc = "returned", ![u].exit = "not_found"]
    ELSE IF task[u].attempt + 1 < MAX_RETRIES THEN
        [task EXCEPT ![u].attempt = @ + 1]
    ELSE
        [task EXCEPT ![u].attempt = @ + 1, ![u].pc = "returned",
                     ![u].exit = "fetch_failed"]

\* one session.get of the post, answered from `answers`; the source may
\* answer each request anew
TaskFetchFrom(u, answers) ==
    /\ task[u].pc = "fetch"
    /\ \E r \in answers :
        LET after == AfterPostResponse(u, r)
        IN  task' = [after EXCEPT
                        ![u].last = IF after[u].pc = "fetch" THEN Kind(r) ELSE "none"]
    /\ UNCHANGED <<permalinksFile, permalinksExists, downloadedLog, htmlFiles,
                   mediaFiles, assetFiles, dlPc, dlRun, dlOutcome,
                   urls_to_process_with_index, file_lock, total_stats,
                   runStart, pagerOwnVars, dedupVars, rwVars>>

TaskFetch(u) == TaskFetchFrom(u, PostAnswers(u))

\* 'stats["posts_processed"] = 1' and the raw markup is written
TaskSave(u) ==
    /\ task[u].pc = "save"
    /\ task' = [task EXCEPT ![u].stats.posts_processed = 1, ![u].pc = "assets"]
    /\ htmlFiles' = htmlFiles \cup {generate_filename_from_url(u, task[u].post_index)}
    /\ UNCHANGED <<permalinksFile, permalinksExists, downloadedLog, mediaFiles,
                   assetFiles, dlPc, dlRun, dlOutcome, urls_to_process_with_index,
                   file_lock, total_stats, runStart,
                   pagerOwnVars, dedupVars, rwVars>>

\* download_page_assets fails on an asset by leaving process_url with the
\* exception
TaskAssetsRaisesOnFailure(u) ==
    /\ task[u].pc = "assets_fetch"
    /\ LET name == generate_filename_from_url(u, task[u].post_index)
           assets == task[u].html.asset
           missing == assets \ task[u].assets_downloaded
       IN  \E got \in SUBSET missing, threw \in BOOLEAN :
            /\ assetFiles' = assetFiles \cup got
            /\ htmlFiles' = IF threw \/ got # missing
                            THEN htmlFiles ELSE htmlFiles \cup {name}
            /\ task' = IF threw \/ got # missing
                       THEN [task EXCEPT ![u].pc = "raised", ![u].exit = "raised",
                                         ![u].assets_downloaded = {}]
                       ELSE [task EXCEPT ![u].pc = "parse",
                                         ![u].assets_downloaded = {},
                                         ![u].modified_html =
                                            [threw |-> FALSE, rewritten |-> assets]]
    /\ UNCHANGED <<permalinksFile, permalinksExists, downloadedLog, mediaFiles,
                   dlPc, dlRun, dlOutcome, urls_to_process_with_index, file_lock,
                   total_stats, runStart,
                   pagerOwnVars, dedupVars, rwVars>>

\* download_page_assets, the os.path.exists tests: an asset whose file is in
\* the shared assets directory is entered in assets_downloaded without a
\* request; the others are still to be fetched.  No lock is held, so other
\* workers run between the test and the write
TaskAssets(u) ==
    /\ task[u].pc = "assets"
    /\ task' = [task EXCEPT
                  ![u].pc = "assets_fetch",
                  ![u].assets_downloaded = task[u].html.asset \cap assetFiles]
    /\ UNCHANGED <<permalinksFile, permalinksExists, downloadedLog, htmlFiles,
                   mediaFiles, assetFiles, dlPc, dlRun, dlOutcome,
                   urls_to_process_with_index, file_lock, total_stats, runStart,
                   pagerOwnVars, dedupVars, rwVars>>

\* download_page_assets, the fetches and writes: each asset that was not
\* found on disk is fetched inside a try of its own and written to its file
\* (`got` are those that were stored, whether or not the file exists by
\* now); the references to the assets in assets_downloaded are rewritten and
\* the rewritten markup is written; when the resolver throws the raw markup
\* stays
TaskAssetsStore(u) ==
    /\ task[u].pc = "assets_fetch"
    /\ LET name == generate_filename_from_url(u, task[u].post_index)
           assets == task[u].html.asset
           missing == assets \ task[u].assets_downloaded
       IN  \E got \in SUBSET missing, threw \in BOOLEAN :
            /\ assetFiles' = assetFiles \cup got
            /\ htmlFiles' = IF threw THEN htmlFiles ELSE htmlFiles \cup {name}
            /\ task' = [task EXCEPT
                          ![u].pc = "parse",
                          ![u].assets_downloaded = {},
                          ![u].modified_html =
                              [threw |-> threw,
                               rewritten |-> IF threw THEN {}
                                             ELSE task[u].assets_downloaded \cup got]]
    /\ UNCHANGED <<permalinksFile, permalinksExists, downloadedLog, mediaFiles,
                   dlPc, dlRun, dlOutcome, urls_to_process_with_index, file_lock,
                   total_stats, runStart,
                   pagerOwnVars, dedupVars, rwVars>>

\* the content container is looked up; without one there is no media loop
TaskParse(u) ==
    /\ task[u].pc = "parse"
    /\ task' = [task EXCEPT ![u].pc = IF task[u].html.content_div THEN "media" ELSE "log",
                            ![u].i = 1, ![u].modified_html = NoMarkup]
    /\ UNCHANGED <<permalinksFile, permalinksExists, downloadedLog, htmlFiles,
                   mediaFiles, assetFiles, dlPc, dlRun, dlOutcome,
                   urls_to_process_with_index, file_lock, total_stats, runStart,
                   pagerOwnVars, dedupVars, rwVars>>

\* the head of the loop over all_media_tags: a tag that is no media
\* reference or whose file is on disk is passed over; otherwise download_file
\* is called, on the cleaned URL first when there is one
TaskMediaNext(u) ==
    /\ task[u].pc = "media"
    /\ LET t == task[u]
           media == t.html.media
           name == generate_filename_from_url(u, t.post_index)
       IN  IF t.i > Len(media) THEN
               task' = [task EXCEPT ![u].pc = "log", ![u].last = "none"]
           ELSE IF NotMedia(media[t.i]) THEN
               task' = [task EXCEPT ![u].i = @ + 1, ![u].last = "none"]
           ELSE IF MediaSavePath(name, media[t.i]) \in mediaFiles THEN
               task' = [task EXCEPT ![u].i = @ + 1, ![u].last = "none"]
           ELSE
               task' = [task EXCEPT ![u].dl = 0, ![u].last = "none",
                                    ![u].pc = IF HasCleanedUrl(media[t.i])
                                              THEN "dl_cleaned" ELSE "dl_original"]
    /\ UNCHANGED <<permalinksFile, permalinksExists, downloadedLog, htmlFiles,
                   mediaFiles, assetFiles, dlPc, dlRun, dlOutcome,
                   urls_to_process_with_index, file_lock, total_stats, runStart,
                   pagerOwnVars, dedupVars, rwVars>>

\* process_url without the fallback: a failed call for the cleaned URL counts
\* the reference as failed
AfterDownloadNoFallback(u, cleaned, success) ==
    IF success THEN
        [task EXCEPT ![u].stats.media_downloaded = @ + 1, ![u].i = @ + 1,
                     ![u].dl = 0, ![u].pc = "media"]
    ELSE
        [task EXCEPT ![u].stats.media_failed = @ + 1, ![u].i = @ + 1,
                     ![u].dl = 0, ![u].pc = "media"]

\* process_url after a download_file call on the i-th tag returned `success`
\* (the attempt counter of the call that returned is put back to 0)
AfterDownload(u, cleaned, success) ==
    IF success THEN
        [task EXCEPT ![u].stats.media_downloaded = @ + 1, ![u].i = @ + 1,
                     ![u].dl = 0, ![u].pc = "media"]
    ELSE IF cleaned THEN
        [task EXCEPT ![u].dl = 0, ![u].pc = "dl_original"]
    ELSE
        [task EXCEPT ![u].stats.media_failed = @ + 1, ![u].i = @ + 1,
                     ![u].dl = 0, ![u].pc = "media"]

\* one pass of the loop of download_file (a HEAD, then unless it answered 404
\* a GET), for the cleaned URL with fail_fast_on_500 or for the original URL
TaskDownload(u) ==
    /\ task[u].pc \in {"dl_cleaned", "dl_original"}
    /\ LET t == task[u]
           cleaned == t.pc = "dl_cleaned"
           name == generate_filename_from_url(u, t.post_index)
           save_path == MediaSavePath(name, t.html.media[t.i])
       IN  \E head \in HeadAnswers, get \in GetAnswers :
            LET outcome == AttemptOutcome(head, get, cleaned)
            IN  /\ (~head.exc /\ head.status_code = 404) => get = GetExc
                /\ mediaFiles' = IF outcome = "true"
                                 THEN mediaFiles \cup {FinalSavePath(save_path, head, get)}
                                 ELSE mediaFiles
                /\ task' = [(IF outcome = "retry" /\ t.dl + 1 < MAX_RETRIES
                             THEN [task EXCEPT ![u].dl = @ + 1]
                             ELSE AfterDownload(u, cleaned, outcome = "true"))
                                EXCEPT ![u].last = PassKind(head, get)]
    /\ UNCHANGED <<permalinksFile, permalinksExists, downloadedLog, htmlFiles,
                   assetFiles, dlPc, dlRun, dlOutcome, urls_to_process_with_index,
                   file_lock, total_stats, runStart,
                   pagerOwnVars, dedupVars, rwVars>>

\* process_url with the log written in a 'finally': the URL is appended
\* although an exception leaves the function
TaskRaiseLogged(u) ==
    /\ task[u].pc \in {"save", "parse", "media"}
    /\ task' = [task EXCEPT ![u].pc = "raised", ![u].exit = "raised",
                            ![u].last = "none", ![u].modified_html = NoMarkup]
    /\ downloadedLog' = Append(downloadedLog, u)
    /\ UNCHANGED <<permalinksFile, permalinksExists, htmlFiles,
                   mediaFiles, assetFiles, dlPc, dlRun, dlOutcome,
                   urls_to_process_with_index, file_lock, total_stats,
                   runStart, pagerOwnVars, dedupVars, rwVars>>

\* an exception leaves process_url: from the write of the post file, from
\* the parse of the markup or the creation of the media directory, or from
\* the handling of a tag of the media loop
TaskRaise(u) ==
    /\ task[u].pc \in {"save", "parse", "media"}
    /\ task' = [task EXCEPT ![u].pc = "raised", ![u].exit = "raised",
                            ![u].last = "none", ![u].modified_html = NoMarkup]
    /\ UNCHANGED <<permalinksFile, permalinksExists, downloadedLog, htmlFiles,
                   mediaFiles, assetFiles, dlPc, dlRun, dlOutcome,
                   urls_to_process_with_index, file_lock, total_stats, runStart,
                   pagerOwnVars, dedupVars, rwVars>>

\* log_url_as_downloaded without the lock
TaskAcquireUnlocked(u) ==
    /\ task[u].pc = "log"
    /\ file_lock' = u
    /\ task' = [task EXCEPT ![u].pc = "locked"]
    /\ UNCHANGED <<permalinksFile, permalinksExists, downloadedLog, htmlFiles,
                   mediaFiles, assetFiles, dlPc, dlRun, dlOutcome,
                   urls_to_process_with_index, total_stats, runStart,
                   pagerOwnVars, dedupVars, rwVars>>

\* log_url_as_downloaded: 'with lock:'
TaskAcquire(u) ==
    /\ task[u].pc = "log"
    /\ file_lock = NoHolder
    /\ file_lock' = u
    /\ task' = [task EXCEPT ![u].pc = "locked"]
    /\ UNCHANGED <<permalinksFile, permalinksExists, downloadedLog, htmlFiles,
                   mediaFiles, assetFiles, dlPc, dlRun, dlOutcome,
                   urls_to_process_with_index, total_stats, runStart,
                   pagerOwnVars, dedupVars, rwVars>>

\* log_url_as_downloaded: the log is opened for append and the line written
TaskAppend(u) ==
    /\ task[u].pc = "locked"
    /\ downloadedLog' = Append(downloadedLog, u)
    /\ task' = [task EXCEPT ![u].pc = "appended"]
    /\ UNCHANGED <<permalinksFile, permalinksExists, htmlFiles, mediaFiles,
                   assetFiles, dlPc, dlRun, dlOutcome, urls_to_process_with_index,
                   file_lock, total_stats, runStart,
                   pagerOwnVars, dedupVars, rwVars>>

\* log_url_as_downloaded: the lock is released; process_url returns stats
TaskRelease(u) ==
    /\ task[u].pc = "appended"
    /\ file_lock' = IF file_lock = u THEN NoHolder ELSE file_lock
    /\ task' = [task EXCEPT ![u].pc = "returned", ![u].exit = "logged"]
    /\ UNCHANGED <<permalinksFile, permalinksExists, downloadedLog, htmlFiles,
                   mediaFiles, assetFiles, dlPc, dlRun, dlOutcome,
                   urls_to_process_with_index, total_stats, runStart,
                   pagerOwnVars, dedupVars, rwVars>>

AddStats(a, b) ==
    [posts_processed |-> a.posts_processed + b.posts_processed,
     media_downloaded |-> a.media_downloaded + b.media_downloaded,
     media_failed |-> a.media_failed + b.media_failed]

\* main() with the loop over the futures left at the first exception of a
\* task: the run ends although other tasks have not ended
MainCollectStopsOnRaise(u) ==
    /\ dlPc = "running"
    /\ task[u].pc \in {"returned", "raised"}
    /\ ~task[u].collected
    /\ task' = [task EXCEPT ![u].collected = TRUE]
    /\ total_stats' = IF task[u].pc = "returned"
                      THEN AddStats(total_stats, task[u].stats)
                      ELSE total_stats
    /\ dlPc' = IF task[u].pc = "raised" THEN "done" ELSE dlPc
    /\ dlOutcome' = IF task[u].pc = "raised" THEN "finished" ELSE dlOutcome
    /\ UNCHANGED <<permalinksFile, permalinksExists, downloadedLog, htmlFiles,
                   mediaFiles, assetFiles, dlRun,
                   urls_to_process_with_index, file_lock, runStart,
                   pagerOwnVars, dedupVars, rwVars>>

\* main(): a completed future is taken from as_completed; its result is
\* added to the totals, its exception is printed
MainCollect(u) ==
    /\ dlPc = "running"
    /\ task[u].pc \in {"returned", "raised"}
    /\ ~task[u].collected
    /\ task' = [task EXCEPT ![u].collected = TRUE]
    /\ total_stats' = IF task[u].pc = "returned"
                      THEN AddStats(total_stats, task[u].stats)
                      ELSE total_stats
    /\ UNCHANGED <<permalinksFile, permalinksExists, downloadedLog, htmlFiles,
                   mediaFiles, assetFiles, dlPc, dlRun, dlOutcome,
                   urls_to_process_with_index, file_lock, runStart,
                   pagerOwnVars, dedupVars, rwVars>>

\* main(): every future was taken; the executor is left and the summary printed
DlFinish ==
    /\ dlPc = "running"
    /\ \A u \in DOMAIN urls_to_process_with_index : task[u].collected
    /\ dlPc' = "done"
    /\ dlOutcome' = "finished"
    /\ UNCHANGED <<permalinksFile, permalinksExists, downloadedLog, htmlFiles,
                   mediaFiles, assetFiles, dlRun, urls_to_process_with_index, task,
                   file_lock, total_stats, runStart,
                   pagerOwnVars, dedupVars, rwVars>>

\* main(): a KeyboardInterrupt reaches the main thread inside the 'with' of
\* the executor: the loop over the futures is left and the exit of the
\* executor waits for the workers
DlInterrupt ==
    /\ dlPc = "running"
    /\ dlPc' = "interrupted"
    /\ UNCHANGED <<permalinksFile, permalinksExists, downloadedLog, htmlFiles,
                   mediaFiles, assetFiles, dlRun, dlOutcome,
                   urls_to_process_with_index, task, file_lock, total_stats,
                   runStart, pagerOwnVars, dedupVars, rwVars>>

\* main(): the workers have ended, 'except KeyboardInterrupt' prints its
\* message and the script exits
DlInterruptedExit ==
    /\ dlPc = "interrupted"
    /\ \A u \in DOMAIN urls_to_process_with_index :
            task[u].pc \in {"returned", "raised"}
    /\ dlPc' = "done"
    /\ dlOutcome' = "interrupted"
    /\ UNCHANGED <<permalinksFile, permalinksExists, downloadedLog, htmlFiles,
                   mediaFiles, assetFiles, dlRun,
                   urls_to_process_with_index, task, file_lock, total_stats,
                   runStart, pagerOwnVars, dedupVars, rwVars>>

(***************************************************************************)
(* 03_prepare_media.py: constants and the files under the posts directory. *)
(* A name is the sequence of its pieces: a piece is one character or a run *)
(* of letters and digits.  A perceptual hash is the set of its one-bits;   *)
(* the difference of two hashes is the number of bits in which they differ.*)
(***************************************************************************)
HASH_DIFFERENCE_THRESHOLD == 2

BitPositions == {1, 2}

\* the values imagehash.phash can give
Fingerprints == SUBSET BitPositions

\* imagehash's '-': the Hamming distance
Distance(h1, h2) == Cardinality((h1 \ h2) \cup (h2 \ h1))

\* float('inf'): above every difference
Infinity == Cardinality(BitPositions) + 1

\* the first eight characters of str(uuid.uuid4())
UuidPool == {"u1", "u2"}

Path(slug, filename) == [slug |-> slug, filename |-> filename]

\* media files whose directories differ and one post file
Paths ==
    {Path(<<"b">>, <<"x", ".", "jpg">>),
     Path(<<"a", " ">>, <<"x", ".", "jpg">>),
     Path(<<"a", "_">>, <<"x", ".", "jpg">>),
     Path(<<"a", "_", ".", "h">>, <<"x", ".", "jpg">>),
     Path(<<"a", "_">>, <<"p", ".", "html">>)}

\* what python-magic and Pillow make of a file: an image with its hash, a
\* file that is no image, or a file on which one of them raises
Contents ==
    {[kind |-> "image", hash |-> h] : h \in Fingerprints}
        \cup {[kind |-> "other", hash |-> {}], [kind |-> "corrupt", hash |-> {}]}

EndsWith(name, suffix) ==
    /\ Len(name) >= Len(suffix)
    /\ SubSeq(name, Len(name) - Len(suffix) + 1, Len(name)) = suffix

\* the orders in which os.walk can list n files: distinct paths
PathSeqs(n) ==
    {ps \in [1..n -> Paths] : \A i, j \in 1..n : ps[i] = ps[j] => i = j}

\* what the files at these paths can hold, a post file being no image
ContentSeqs(ps) ==
    {cs \in [DOMAIN ps -> Contents] :
        \A i \in DOMAIN ps :
            EndsWith(ps[i].filename, <<".", "html">>) => cs[i].kind = "other"}

(***************************************************************************)
(* 03_prepare_media.py: helpers                                            *)
(***************************************************************************)
\* os.path.splitext: split at the last dot that is not a leading dot
splitext(name) ==
    LET dots == {i \in DOMAIN name :
                    name[i] = "." /\ \E j \in 1..(i - 1) : name[j] # "."}
    IN  IF dots = {} THEN [root |-> name, ext |-> <<>>]
        ELSE LET k == CHOOSE i \in dots : \A j \in dots : j <= i
             IN  [root |-> SubSeq(name, 1, k - 1),
                  ext |-> SubSeq(name, k, Len(name))]

\* c.isalnum() or c in ('.', '_', '-')
IsSafe(c) == c \notin {" ", "/", ":"}

sanitize_filename(post_slug, original_filename) ==
    LET post_slug_base == splitext(post_slug).root
        combined_name == post_slug_base \o <<"_">> \o original_filename
    IN  [i \in DOMAIN combined_name |->
            IF IsSafe(combined_name[i]) THEN combined_name[i] ELSE "_"]

\* the scan of line 68: neither a post file nor a popup page
IsMedia(filename) ==
    /\ ~EndsWith(filename, <<".", "html">>)
    /\ ~EndsWith(filename, <<"-", "popup">>)

\* what is on disk at a path of the listing
ContentOf(path) == (CHOOSE f \in Range(walk) : f.path = path).content

\* the scan over the dict for the nearest hash, the later hash winning a tie
RECURSIVE BestMatchLatestFrom(_, _, _, _, _)
BestMatchLatestFrom(current_hash, hashes, i, best_match_hash, lowest_diff) ==
    IF i > Len(hashes) THEN
        [best_match_hash |-> best_match_hash, lowest_diff |-> lowest_diff]
    ELSE
        LET diff == Distance(current_hash, hashes[i].hash)
        IN  IF diff <= lowest_diff
            THEN BestMatchLatestFrom(current_hash, hashes, i + 1, hashes[i].hash, diff)
            ELSE BestMatchLatestFrom(current_hash, hashes, i + 1,
                                     best_match_hash, lowest_diff)

\* the scan over the dict for the nearest hash: 'if diff < lowest_diff'
RECURSIVE BestMatchFrom(_, _, _, _, _)
BestMatchFrom(current_hash, hashes, i, best_match_hash, lowest_diff) ==
    IF i > Len(hashes) THEN
        [best_match_hash |-> best_match_hash, lowest_diff |-> lowest_diff]
    ELSE
        LET diff == Distance(current_hash, hashes[i].hash)
        IN  IF diff < lowest_diff
            THEN BestMatchFrom(current_hash, hashes, i + 1, hashes[i].hash, diff)
            ELSE BestMatchFrom(current_hash, hashes, i + 1,
                               best_match_hash, lowest_diff)

BestMatchLatest(current_hash, hashes) ==
    BestMatchLatestFrom(current_hash, hashes, 1, {}, Infinity)

BestMatch(current_hash, hashes) ==
    BestMatchFrom(current_hash, hashes, 1, {}, Infinity)

\* a duplicate only when the hashes are equal
IsDuplicateExact(lowest_diff) == lowest_diff < 1

\* no image is taken for a duplicate
IsDuplicateNever(lowest_diff) == FALSE

\* 'if lowest_diff < HASH_DIFFERENCE_THRESHOLD'
IsDuplicate(lowest_diff) == lowest_diff < HASH_DIFFERENCE_THRESHOLD

\* processed_hashes[h]
HashName(hashes, h) == (CHOOSE e \in Range(hashes) : e.hash = h).name

\* processed_hashes[h] = name: a new key goes last, a key already there
\* keeps its place
SetHash(hashes, h, name) ==
    IF \E i \in DOMAIN hashes : hashes[i].hash = h
    THEN [i \in DOMAIN hashes |->
            IF hashes[i].hash = h THEN [hash |-> h, name |-> name] ELSE hashes[i]]
    ELSE Append(hashes, [hash |-> h, name |-> name])

\* the map keyed by the file's name alone: an entry of the same filename
\* under another directory is written over
SetMapByFilename(map, path, name) ==
    [q \in DOMAIN map \cup {path} |->
        IF q.filename = path.filename THEN name ELSE map[q]]

\* file_map[path] = name
SetMap(map, path, name) ==
    [q \in DOMAIN map \cup {path} |-> IF q = path THEN name ELSE map[q]]

StoreNames == {e.name : e \in store}

(***************************************************************************)
(* 03_prepare_media.py: main()                                             *)
(***************************************************************************)
\* setup and scan: without the posts directory main() returns at once
DedupStart ==
    /\ dedupPc = "idle"
    /\ IF ~sourceExists
       THEN /\ dedupPc' = "done"
            /\ UNCHANGED <<files_to_process, dedupIdx>>
       ELSE /\ dedupPc' = "loop"
            /\ files_to_process' =
                  [i \in DOMAIN SelectSeq(walk, LAMBDA f : IsMedia(f.path.filename)) |->
                      SelectSeq(walk, LAMBDA f : IsMedia(f.path.filename))[i].path]
            /\ dedupIdx' = 1
    /\ processed_hashes' = <<>>
    /\ file_map' = [q \in {} |-> <<>>]
    /\ UNCHANGED <<sourceExists, walk, store, mapFile>>
    /\ UNCHANGED <<pagerVars, permalinksExists, dlOwnVars, rwVars>>

\* python-magic or Pillow raises: the 'except' logs a warning and the loop
\* goes on with the next file
DedupCorrupt ==
    /\ dedupPc = "loop"
    /\ dedupIdx <= Len(files_to_process)
    /\ ContentOf(files_to_process[dedupIdx]).kind = "corrupt"
    /\ dedupIdx' = dedupIdx + 1
    /\ UNCHANGED <<sourceExists, walk, store, mapFile, dedupPc, files_to_process,
                   processed_hashes, file_map>>
    /\ UNCHANGED <<pagerVars, permalinksExists, dlOwnVars, rwVars>>

\* a duplicate whose own hash is put into the dict as well
DedupDuplicateRegisters ==
    /\ dedupPc = "loop"
    /\ dedupIdx <= Len(files_to_process)
    /\ LET original_path == files_to_process[dedupIdx]
           current_hash == ContentOf(original_path).hash
           match == BestMatch(current_hash, processed_hashes)
           new_filename == HashName(processed_hashes, match.best_match_hash)
       IN  /\ ContentOf(original_path).kind = "image"
           /\ IsDuplicate(match.lowest_diff)
           /\ file_map' = SetMap(file_map, original_path, new_filename)
           /\ processed_hashes' = SetHash(processed_hashes, current_hash, new_filename)
    /\ dedupIdx' = dedupIdx + 1
    /\ UNCHANGED <<sourceExists, walk, store, mapFile, dedupPc, files_to_process>>
    /\ UNCHANGED <<pagerVars, permalinksExists, dlOwnVars, rwVars>>

\* an image within the threshold of a hash of the dict: mapped to the
\* filename of the best match, nothing copied
DedupDuplicate ==
    /\ dedupPc = "loop"
    /\ dedupIdx <= Len(files_to_process)
    /\ LET original_path == files_to_process[dedupIdx]
           current_hash == ContentOf(original_path).hash
           match == BestMatch(current_hash, processed_hashes)
       IN  /\ ContentOf(original_path).kind = "image"
           /\ IsDuplicate(match.lowest_diff)
           /\ file_map' = SetMap(file_map, original_path,
                                 HashName(processed_hashes, match.best_match_hash))
    /\ dedupIdx' = dedupIdx + 1
    /\ UNCHANGED <<sourceExists, walk, store, mapFile, dedupPc, files_to_process,
                   processed_hashes>>
    /\ UNCHANGED <<pagerVars, permalinksExists, dlOwnVars, rwVars>>

\* a new image or a file that is no image: copied under the sanitized name,
\* with a piece of a uuid added when that name is taken, mapped, and an
\* image's hash put into the dict
DedupCopy ==
    /\ dedupPc = "loop"
    /\ dedupIdx <= Len(files_to_process)
    /\ LET original_path == files_to_process[dedupIdx]
           content == ContentOf(original_path)
           is_image == content.kind = "image"
           sanitized == sanitize_filename(original_path.slug, original_path.filename)
       IN  /\ \/ content.kind = "other"
              \/ /\ is_image
                 /\ ~IsDuplicate(BestMatch(content.hash, processed_hashes).lowest_diff)
           /\ \E unique_id \in UuidPool :
                LET new_filename ==
                        IF sanitized \in StoreNames
                        THEN splitext(sanitized).root \o <<"_", unique_id>>
                                 \o splitext(sanitized).ext
                        ELSE sanitized
                IN  /\ store' = {e \in store : e.name # new_filename}
                                    \cup {[name |-> new_filename, from |-> original_path]}
                    /\ file_map' = SetMap(file_map, original_path, new_filename)
                    /\ processed_hashes' =
                          IF is_image
                          THEN SetHash(processed_hashes, content.hash, new_filename)
                          ELSE processed_hashes
    /\ dedupIdx' = dedupIdx + 1
    /\ UNCHANGED <<sourceExists, walk, mapFile, dedupPc, files_to_process>>
    /\ UNCHANGED <<pagerVars, permalinksExists, dlOwnVars, rwVars>>

\* the loop is over: file_map.json is written
DedupSave ==
    /\ dedupPc = "loop"
    /\ dedupIdx > Len(files_to_process)
    /\ mapFile' = file_map
    /\ dedupPc' = "done"
    /\ UNCHANGED <<sourceExists, walk, store, files_to_process, dedupIdx,
                   processed_hashes, file_map>>
    /\ UNCHANGED <<pagerVars, permalinksExists, dlOwnVars, rwVars>>

(***************************************************************************)
(* 04_create_wordpress_file.py: the canonical mapping, URLs and the        *)
(* content of a post.  A URL is what precedes its last path segment        *)
(* ("blog": under blog_url, on typepad.com; "typepad": elsewhere on        *)
(* typepad.com; "shared": a '.shared/image.html?' viewer URL with the file *)
(* in its query; "other": another site; "wp": WP_MEDIA_PATH; "slash": the  *)
(* site root), the pieces of its last segment, and whether a slash ends it.*)
(***************************************************************************)
Url(base, filename, slash) == [base |-> base, filename |-> filename, slash |-> slash]

\* an attribute that is not there
NoUrl == Url("none", <<>>, FALSE)

\* '../wp-content/uploads/typepad_media/' + new_filename
WP_MEDIA_PATH(new_filename) == Url("wp", new_filename, FALSE)

\* f"/{slug}/"
PostPath(slug) == Url("slash", slug, TRUE)

\* the original paths of the mapping: a file under posts/<slug>/
MapPaths ==
    {Path(<<"a">>, <<"x", ".", "jpg">>),
     Path(<<"b">>, <<"x", ".", "jpg">>),
     Path(<<"b">>, <<"a", "_", "x", ".", "jpg">>),
     Path(<<"a">>, <<"x", ".", "png">>)}

\* the new filenames of the mapping
MapNames == {<<"a", "_", "x", ".", "jpg">>, <<"b", "_", "a", "_", "x", ".", "jpg">>}

\* file_map.json: up to n entries with distinct original paths, in the order
\* of the file
FileMaps(n) ==
    UNION {{m \in [1..k -> [path : MapPaths, name : MapNames]] :
               \A i, j \in 1..k : m[i].path = m[j].path => i = j} : k \in 0..n}

\* the href and src values of the posts
LinkUrls ==
    {NoUrl,
     Url("blog", <<"x", ".", "jpg">>, FALSE),
     Url("blog", <<"p", ".", "html">>, FALSE),
     Url("blog", <<"x", ".", "html">>, FALSE),
     Url("blog", <<>>, TRUE),
     Url("typepad", <<"x", "-", "popup">>, FALSE),
     Url("shared", <<"x", ".", "jpg">>, FALSE),
     Url("typepad", <<"x", ".", "jpg">>, FALSE),
     Url("other", <<"p", ".", "html">>, FALSE),
     Url("other", <<"x", ".", "JPG">>, FALSE)}

ImageUrls ==
    {NoUrl,
     Url("blog", <<"x", ".", "jpg">>, FALSE),
     Url("typepad", <<"x", ".", "gif">>, FALSE),
     Url("other", <<"y", ".", "jpg">>, FALSE)}

\* the class attribute: the list the parser gives, or the joined string
\* that process_content assigns
Class(parts, joined) == [parts |-> parts, joined |-> joined]

\* an element of the content: its tag ("a", "img", "br", "p", "note": a
\* paragraph holding the three editor's-note phrases, "text"), what wraps
\* it ("none", "div", "td": a td outside a tr, "tr_td"), for a link its
\* href, whether its onclick holds 'window.open' and what is inside it
\* ("img", "text", "empty"), and for an image (alone or inside a link) its
\* src, class and style ("none", "right": 'float: right', "left", "other")
Node(tag, wrap, href, onclick, inner, src, class, style) ==
    [tag |-> tag, wrap |-> wrap, href |-> href, onclick |-> onclick,
     inner |-> inner, src |-> src, class |-> class, style |-> style]

Plain(tag) == Node(tag, "none", NoUrl, FALSE, "empty", NoUrl, Class(<<>>, FALSE), "none")

\* an element that decompose() took out of the tree
Removed == Plain("removed")

ImgNodes ==
    {Node("img", "none", NoUrl, FALSE, "empty", src, Class(c, FALSE), style) :
        src \in ImageUrls, c \in {<<>>, <<"c">>},
        style \in {"none", "right", "left", "other"}}
    \cup {Node("img", w, NoUrl, FALSE, "empty", src, Class(<<>>, FALSE), "none") :
            w \in {"div", "td", "tr_td"}, src \in ImageUrls}

LinkNodes ==
    {Node("a", "none", href, onclick, inner, NoUrl, Class(<<>>, FALSE), "none") :
        href \in LinkUrls, onclick \in BOOLEAN, inner \in {"text", "empty"}}
    \cup {Node("a", "none", href, onclick, "img",
               Url("blog", <<"x", ".", "jpg">>, FALSE), Class(<<>>, FALSE), style) :
            href \in LinkUrls, onclick \in BOOLEAN, style \in {"none", "right"}}

Nodes == ImgNodes \cup LinkNodes \cup {Plain("br"), Plain("p"), Plain("note")}

\* the command line: whether --blog_url was given, and the toggles
Args ==
    [blog_url : BOOLEAN, scrub_popups : BOOLEAN, remove_divs : BOOLEAN,
     remove_brs : BOOLEAN]

(***************************************************************************)
(* 04_create_wordpress_file.py: helpers                                    *)
(***************************************************************************)
\* a lookup that found nothing: None
NoName == <<>>

\* os.path.basename(urlparse(url).path): the viewer URL has its file in the
\* query, a URL ending in a slash has no last segment
Basename(url) ==
    IF url.slash THEN <<>>
    ELSE IF url.base = "shared" THEN <<"image", ".", "html">>
    ELSE url.filename

\* str.lower() of an extension
Lower(piece) == IF piece = "JPG" THEN "jpg" ELSE piece

\* the extensions of the list of l.144 the model has files of
MediaExtensions == {<<".", "jpg">>, <<".", "png">>, <<".", "gif">>}

\* original_href.lower().endswith(ext) for one of the media extensions
IsMediaHref(url) ==
    /\ ~url.slash
    /\ \E ext \in MediaExtensions :
          EndsWith([i \in DOMAIN url.filename |-> Lower(url.filename[i])], ext)

\* main(): stem_map[os.path.splitext(original_path)[0]] = new_filename, a
\* later entry of the same stem replacing an earlier one
BuildStemMap(entries) ==
    LET KeyOf(e) == [slug |-> e.path.slug, stem |-> splitext(e.path.filename).root]
    IN  [k \in {KeyOf(entries[i]) : i \in DOMAIN entries} |->
            LET last == CHOOSE i \in DOMAIN entries :
                            /\ KeyOf(entries[i]) = k
                            /\ \A j \in DOMAIN entries : KeyOf(entries[j]) = k => j <= i
            IN  entries[last].name]

\* main(): 'if basename_stem not in basename_map', the first entry of a
\* filename stem stays
BuildBasenameMap(entries) ==
    LET StemOf(e) == splitext(e.path.filename).root
    IN  [k \in {StemOf(entries[i]) : i \in DOMAIN entries} |->
            LET first == CHOOSE i \in DOMAIN entries :
                            /\ StemOf(entries[i]) = k
                            /\ \A j \in DOMAIN entries : StemOf(entries[j]) = k => i <= j
            IN  entries[first].name]

\* the lookup by the filename stem alone
find_file_by_basename(original_url, slug, sm, bm) ==
    LET original_filename_no_ext == splitext(Basename(original_url)).root
    IN  IF original_filename_no_ext \in DOMAIN bm
        THEN bm[original_filename_no_ext]
        ELSE NoName

\* find_file_in_map: the full path stem first, then the filename stem
find_file_in_map(original_url, slug, sm, bm) ==
    LET original_filename_no_ext == splitext(Basename(original_url)).root
        path_stem_to_find == [slug |-> slug, stem |-> original_filename_no_ext]
    IN  IF path_stem_to_find \in DOMAIN sm /\ sm[path_stem_to_find] # NoName
        THEN sm[path_stem_to_find]
        ELSE IF original_filename_no_ext \in DOMAIN bm
        THEN bm[original_filename_no_ext]
        ELSE NoName

\* steps 1 to 4: the editor's note is removed, a td outside a tr and (if
\* enabled) a div are unwrapped, a br becomes a space (if enabled)
StructureSteps(node, a) ==
    IF node.tag = "note" THEN Removed
    ELSE LET w1 == IF node.wrap = "td" THEN "none" ELSE node.wrap
             w2 == IF a.remove_divs /\ w1 = "div" THEN "none" ELSE w1
         IN  [node EXCEPT !.wrap = w2,
                          !.tag = IF a.remove_brs /\ node.tag = "br" THEN "text" ELSE @]

\* a_tag.unwrap() of a link around an image: the image stays
Unwrap(node) ==
    [node EXCEPT !.tag = "img", !.href = NoUrl, !.onclick = FALSE, !.inner = "empty"]

\* rule 1: '.shared/image.html' in the href, or the href ends with
\* '-popup', or a typepad.com href with window.open in the onclick
IsPopupLink(node) ==
    \/ node.href.base = "shared"
    \/ ~node.href.slash /\ EndsWith(node.href.filename, <<"-", "popup">>)
    \/ node.href.base \in {"blog", "typepad", "shared"} /\ node.onclick

\* step 5 without the 'continue' of rule 1: a popup link that was neither
\* unwrapped nor removed goes on to rules 2 and 3
LinkStepPopupFallsThrough(node, slug, sm, bm, a) ==
    IF node.tag # "a" \/ node.href = NoUrl THEN node
    ELSE IF a.scrub_popups /\ IsPopupLink(node) /\ node.inner = "img" THEN Unwrap(node)
    ELSE IF a.scrub_popups /\ IsPopupLink(node) /\ node.inner = "empty" THEN Removed
    ELSE IF /\ a.blog_url
            /\ node.href.base = "blog"
            /\ ~IsMediaHref(node.href)
            /\ splitext(Basename(node.href)).root # <<>>
    THEN [node EXCEPT !.href = PostPath(splitext(Basename(node.href)).root)]
    ELSE LET new_filename == find_file_in_map(node.href, slug, sm, bm)
         IN  IF new_filename = NoName THEN node
             ELSE IF node.inner = "img" THEN Unwrap(node)
             ELSE [node EXCEPT !.href = WP_MEDIA_PATH(new_filename)]

\* step 5 with the mapping rule tried before the internal-link rule
LinkStepMappingFirst(node, slug, sm, bm, a) ==
    IF node.tag # "a" \/ node.href = NoUrl THEN node
    ELSE IF a.scrub_popups /\ IsPopupLink(node) THEN
        IF node.inner = "img" THEN Unwrap(node)
        ELSE IF node.inner = "empty" THEN Removed
        ELSE node
    ELSE LET new_filename == find_file_in_map(node.href, slug, sm, bm)
         IN  IF new_filename # NoName
             THEN IF node.inner = "img" THEN Unwrap(node)
                  ELSE [node EXCEPT !.href = WP_MEDIA_PATH(new_filename)]
             ELSE IF /\ a.blog_url
                     /\ node.href.base = "blog"
                     /\ ~IsMediaHref(node.href)
                     /\ splitext(Basename(node.href)).root # <<>>
             THEN [node EXCEPT !.href = PostPath(splitext(Basename(node.href)).root)]
             ELSE node

\* step 5 for one element
LinkStep(node, slug, sm, bm, a) ==
    IF node.tag # "a" \/ node.href = NoUrl THEN node
    ELSE IF a.scrub_popups /\ IsPopupLink(node) THEN
        IF node.inner = "img" THEN Unwrap(node)
        ELSE IF node.inner = "empty" THEN Removed
        ELSE node
    ELSE IF /\ a.blog_url
            /\ node.href.base = "blog"
            /\ ~IsMediaHref(node.href)
            /\ splitext(Basename(node.href)).root # <<>>
    THEN [node EXCEPT !.href = PostPath(splitext(Basename(node.href)).root)]
    ELSE LET new_filename == find_file_in_map(node.href, slug, sm, bm)
         IN  IF new_filename = NoName THEN node
             ELSE IF node.inner = "img" THEN Unwrap(node)
             ELSE [node EXCEPT !.href = WP_MEDIA_PATH(new_filename)]

\* step 6 for one element: the src of an image (alone or still inside a
\* link) is rewritten if it resolves; a style becomes an alignment class
ImgStep(node, slug, sm, bm, a) ==
    IF ~(node.tag = "img" \/ (node.tag = "a" /\ node.inner = "img")) \/ node.src = NoUrl
    THEN node
    ELSE LET new_filename == find_file_in_map(node.src, slug, sm, bm)
             src == IF new_filename # NoName THEN WP_MEDIA_PATH(new_filename) ELSE node.src
             new_classes ==
                 node.class.parts \o
                     (CASE node.style = "right" -> <<"alignright">>
                        [] node.style = "left" -> <<"alignleft">>
                        [] OTHER -> <<>>)
         IN  IF node.style # "none" /\ new_classes # <<>>
             THEN [node EXCEPT !.src = src, !.class = Class(new_classes, TRUE),
                               !.style = "none"]
             ELSE [node EXCEPT !.src = src]

process_content(soup_content, slug, sm, bm, a) ==
    SelectSeq([i \in DOMAIN soup_content |->
                  ImgStep(LinkStep(StructureSteps(soup_content[i], a), slug, sm, bm, a),
                          slug, sm, bm, a)],
              LAMBDA node : node # Removed)

(***************************************************************************)
(* 04_create_wordpress_file.py: main() and process_single_file             *)
(***************************************************************************)
\* main() loads file_map.json and builds the two lookups; without the file
\* it returns
RwLoad ==
    /\ rwPc = "idle"
    /\ IF mapFileExists
       THEN /\ stem_map' = BuildStemMap(mapEntries)
            /\ basename_map' = BuildBasenameMap(mapEntries)
            /\ rwPc' = "ready"
       ELSE /\ rwPc' = "done"
            /\ UNCHANGED <<stem_map, basename_map>>
    /\ UNCHANGED <<mapFileExists, mapEntries, args, local_file_slug, entry_body,
                   outputs>>
    /\ UNCHANGED <<pagerVars, permalinksExists, dlOwnVars, dedupVars>>

\* process_content is applied to the content of the post, and again to what
\* it returned
RwProcess ==
    /\ rwPc = "ready"
    /\ Len(outputs) < MaxPasses
    /\ outputs' = Append(outputs,
                         process_content(IF outputs = <<>> THEN entry_body
                                         ELSE outputs[Len(outputs)],
                                         local_file_slug, stem_map, basename_map, args))
    /\ UNCHANGED <<rwPc, mapFileExists, mapEntries, args, stem_map, basename_map,
                   local_file_slug, entry_body>>
    /\ UNCHANGED <<pagerVars, permalinksExists, dlOwnVars, dedupVars>>

(***************************************************************************)
(* Initial states and specifications                                       *)
(***************************************************************************)
PagerOwnInit ==
    /\ scannedFile = <<>>
    /\ pagerPc = "idle"
    /\ pagerRun = 0
    /\ scanned_pages = {}
    /\ page_num = START_PAGE
    /\ retries = 0
    /\ response_content = None
    /\ pageSource = [p \in 1..MaxPage |-> None]
    /\ transientUsed = 0
    /\ requested = <<>>

DlOwnInit ==
    /\ downloadedLog = <<>>
    /\ htmlFiles = {}
    /\ mediaFiles = {}
    /\ assetFiles = {}
    /\ dlPc = "idle"
    /\ dlRun = 0
    /\ dlOutcome = "none"
    /\ urls_to_process_with_index = <<>>
    /\ task = [u \in PostUrls |-> NoTask]
    /\ file_lock = NoHolder
    /\ total_stats = ZeroStats
    /\ runStart = [log |-> <<>>, htmlFiles |-> {},
                   exit |-> [u \in PostUrls |-> "none"]]

DedupOwnInit ==
    /\ store = {}
    /\ mapFile = None
    /\ dedupPc = "idle"
    /\ files_to_process = <<>>
    /\ dedupIdx = 0
    /\ processed_hashes = <<>>
    /\ file_map = [q \in {} |-> <<>>]

RwOwnInit ==
    /\ rwPc = "idle"
    /\ mapFileExists = FALSE
    /\ mapEntries = <<>>
    /\ args = [blog_url |-> TRUE, scrub_popups |-> TRUE, remove_divs |-> TRUE,
               remove_brs |-> TRUE]
    /\ stem_map = [k \in {} |-> NoName]
    /\ basename_map = [k \in {} |-> NoName]
    /\ local_file_slug = <<"a">>
    /\ entry_body = <<>>
    /\ outputs = <<>>

\* the pager starts without any file
PagerInit ==
    /\ PagerOwnInit
    /\ permalinksFile = <<>>
    /\ permalinksExists = FALSE
    /\ DlOwnInit
    /\ sourceExists = FALSE
    /\ walk = <<>>
    /\ DedupOwnInit
    /\ RwOwnInit

PagerNext ==
    \/ PagerStart
    \/ PagerStepOver
    \/ PagerBeginFetch
    \/ PagerRequest
    \/ PagerRequestFault
    \/ PagerStop
    \/ PagerSkip
    \/ PagerProcess

SpecPager == PagerInit /\ [][PagerNext]_vars

\* the crawl is one thread in a 'while True' loop whose every statement
\* returns (each request carries a timeout): a step that can be taken is
\* taken
SpecPagerLive == PagerInit /\ [][PagerNext]_vars /\ WF_vars(PagerNext)

\* the backlogs the pager can have left: permalinks.txt missing, or holding
\* up to MaxBacklog lines
Backlogs == UNION {[1..n -> PostUrls] : n \in 0..MaxBacklog}

\* the downloader starts with the backlog and neither a log nor a post file
DlInit ==
    /\ PagerOwnInit
    /\ \/ permalinksExists = FALSE /\ permalinksFile = <<>>
       \/ permalinksExists = TRUE /\ permalinksFile \in Backlogs
    /\ DlOwnInit
    /\ sourceExists = FALSE
    /\ walk = <<>>
    /\ DedupOwnInit
    /\ RwOwnInit

DlNext ==
    \/ DlStart
    \/ \E u \in PostUrls :
        \/ TaskBegin(u)
        \/ TaskFetch(u)
        \/ TaskSave(u)
        \/ TaskAssets(u)
        \/ TaskAssetsStore(u)
        \/ TaskParse(u)
        \/ TaskMediaNext(u)
        \/ TaskDownload(u)
        \/ TaskRaise(u)
        \/ TaskAcquire(u)
        \/ TaskAppend(u)
        \/ TaskRelease(u)
        \/ MainCollect(u)
    \/ DlFinish

SpecDownloader == DlInit /\ [][DlNext]_vars

\* the downloader with a backlog of both posts and an interrupt that can
\* reach a run at any time
CancelInit ==
    /\ PagerOwnInit
    /\ permalinksExists = TRUE
    /\ permalinksFile = <<"u1", "u2">>
    /\ DlOwnInit
    /\ sourceExists = FALSE
    /\ walk = <<>>
    /\ DedupOwnInit
    /\ RwOwnInit

CancelNext ==
    \/ DlNext
    \/ DlInterrupt
    \/ DlInterruptedExit

SpecCancel == CancelInit /\ [][CancelNext]_vars

\* the downloader on a backlog of one post whose pages reference a
\* stylesheet and a script
AssetsInit ==
    /\ PagerOwnInit
    /\ permalinksExists = TRUE
    /\ permalinksFile = <<"u2">>
    /\ DlOwnInit
    /\ sourceExists = FALSE
    /\ walk = <<>>
    /\ DedupOwnInit
    /\ RwOwnInit

AssetsNext ==
    \/ DlStart
    \/ \E u \in PostUrls :
        \/ TaskBegin(u)
        \/ TaskFetchFrom(u, AssetPageAnswers)
        \/ TaskSave(u)
        \/ TaskAssets(u)
        \/ TaskAssetsStore(u)
        \/ TaskParse(u)
        \/ TaskMediaNext(u)
        \/ TaskDownload(u)
        \/ TaskRaise(u)
        \/ TaskAcquire(u)
        \/ TaskAppend(u)
        \/ TaskRelease(u)
        \/ MainCollect(u)
    \/ DlFinish

SpecAssets == AssetsInit /\ [][AssetsNext]_vars

\* the dedup pass starts with the posts directory missing, or holding up to
\* MaxFiles files, and with an empty output directory
DedupInit ==
    /\ PagerOwnInit
    /\ permalinksFile = <<>>
    /\ permalinksExists = FALSE
    /\ DlOwnInit
    /\ \/ sourceExists = FALSE /\ walk = <<>>
       \/ /\ sourceExists = TRUE
          /\ \E n \in 0..MaxFiles : \E ps \in PathSeqs(n) : \E cs \in ContentSeqs(ps) :
                walk = [i \in 1..n |-> [path |-> ps[i], content |-> cs[i]]]
    /\ DedupOwnInit
    /\ RwOwnInit

DedupNext ==
    \/ DedupStart
    \/ DedupCorrupt
    \/ DedupDuplicate
    \/ DedupCopy
    \/ DedupSave

SpecDedup == DedupInit /\ [][DedupNext]_vars

\* the answers of a listing page when the pipeline is run twice: not found
\* (the first page) or forbidden (a later page), or a page with permalinks
\* whose 'next' control is absent or, on the first page, points to the page
\* after it
ResumeAnswers(p) ==
    {IF p = START_PAGE THEN Status(404) ELSE Status(403)}
        \cup {Ok([next |-> n, anchors |-> a]) :
                n \in {[found |-> FALSE, forward |-> FALSE, href |-> Href("none", 0)]}
                        \cup {[found |-> TRUE, forward |-> TRUE,
                                href |-> Href("page", q + 1)] : q \in {p} \cap {START_PAGE}},
                a \in {IF p = START_PAGE
                       THEN {Anchor(TRUE, TRUE, TRUE, "u1"), Anchor(FALSE, TRUE, TRUE, "u2")}
                       ELSE {Anchor(TRUE, FALSE, TRUE, "u1"), Anchor(FALSE, TRUE, TRUE, "u2")}}}

\* the pipeline starts without any file, against a source whose listing
\* pages have their answers
ResumeInit ==
    /\ scannedFile = <<>>
    /\ pagerPc = "idle"
    /\ pagerRun = 0
    /\ scanned_pages = {}
    /\ page_num = START_PAGE
    /\ retries = 0
    /\ response_content = None
    /\ pageSource \in [1..MaxPage -> UNION {ResumeAnswers(p) : p \in 1..MaxPage}]
    /\ \A p \in 1..MaxPage : pageSource[p] \in ResumeAnswers(p)
    /\ transientUsed = 0
    /\ requested = <<>>
    /\ permalinksFile = <<>>
    /\ permalinksExists = FALSE
    /\ DlOwnInit
    /\ sourceExists = FALSE
    /\ walk = <<>>
    /\ DedupOwnInit
    /\ RwOwnInit

\* the pager is run when the downloader has run as often as it has
ResumePagerStart ==
    /\ dlPc \in {"idle", "done"}
    /\ pagerRun = dlRun
    /\ PagerStart

\* the downloader is run when the pager has ended
ResumeDlStart ==
    /\ pagerPc = "done"
    /\ dlRun < pagerRun
    /\ DlStart

ResumeNext ==
    \/ ResumePagerStart
    \/ PagerStepOver
    \/ PagerBeginFetch
    \/ PagerRequest
    \/ PagerRequestFault
    \/ PagerStop
    \/ PagerSkip
    \/ PagerProcess
    \/ ResumeDlStart
    \/ \E u \in PostUrls :
        \/ TaskBegin(u)
        \/ TaskFetch(u)
        \/ TaskSave(u)
        \/ TaskAssets(u)
        \/ TaskAssetsStore(u)
        \/ TaskParse(u)
        \/ TaskMediaNext(u)
        \/ TaskDownload(u)
        \/ TaskRaise(u)
        \/ TaskAcquire(u)
        \/ TaskAppend(u)
        \/ TaskRelease(u)
        \/ MainCollect(u)
    \/ DlFinish

SpecResume == ResumeInit /\ [][ResumeNext]_vars

\* the WordPress file is made without file_map.json, or with up to
\* MaxEntries entries in it, from a post of up to MaxNodes elements
RwInit ==
    /\ PagerOwnInit
    /\ permalinksFile = <<>>
    /\ permalinksExists = FALSE
    /\ DlOwnInit
    /\ sourceExists = FALSE
    /\ walk = <<>>
    /\ DedupOwnInit
    /\ rwPc = "idle"
    /\ \/ mapFileExists = FALSE /\ mapEntries = <<>>
       \/ mapFileExists = TRUE /\ mapEntries \in FileMaps(MaxEntries)
    /\ args \in Args
    /\ stem_map = [k \in {} |-> NoName]
    /\ basename_map = [k \in {} |-> NoName]
    /\ local_file_slug = <<"a">>
    /\ entry_body \in UNION {[1..n -> Nodes] : n \in 1..MaxNodes}
    /\ outputs = <<>>

RwNext ==
    \/ RwLoad
    \/ RwProcess

SpecRewriter == RwInit /\ [][RwNext]_vars

(***************************************************************************)
(* Claims about the pager                                                  *)
(***************************************************************************)
IsOk(r) == ~r.exc /\ r.status_code = 200
IsNotFound(r) == ~r.exc /\ r.status_code = 404

\* the 'next' control of a fetched page n points forward to page n + 1
NextPointsTo(html, n) ==
    /\ html.next.found
    /\ html.next.forward
    /\ html.next.href = Href("page", n + 1)

\* every answer of this run is a success whose 'next' link points to the
\* page after it, or a not-found
OnlyChainedOrNotFound ==
    \A i \in DOMAIN requested :
        LET e == requested[i]
        IN  \/ IsNotFound(e.response)
            \/ IsOk(e.response) /\ NextPointsTo(e.response.html, e.page)

\* C2 (pagination termination): in a run started with an empty
\* scanned-pages log against pages that answer success with a 'next' link to
\* the following page up to a page K that answers not-found, the i-th
\* request is for page i, the not-found answer is the last request of the
\* run, and the run ends only on that answer: the pages requested are
\* exactly 1..K, in increasing order, each once.
PaginationTermination ==
    (pagerRun >= 1 /\ scanned_pages = {} /\ OnlyChainedOrNotFound) =>
        /\ \A i \in DOMAIN requested : requested[i].page = i
        /\ \A i \in DOMAIN requested :
              IsNotFound(requested[i].response) =>
                  i = Len(requested) /\ pagerPc \in {"after", "done"}
        /\ pagerPc = "done" =>
              /\ requested # <<>>
              /\ IsNotFound(requested[Len(requested)].response)

\* a crawl of pages 1, 2 (success, chained) and 3 (not-found) has ended
PaginationTerminationWitness ==
    /\ pagerPc = "done"
    /\ scanned_pages = {}
    /\ OnlyChainedOrNotFound
    /\ Len(requested) = 3
    /\ IsOk(requested[1].response) /\ IsOk(requested[2].response)
    /\ IsNotFound(requested[3].response)

\* the 'next' control of a fetched page n is absent, does not indicate
\* forward navigation, or does not target page n + 1
NextInvalid(html, n) ==
    \/ ~html.next.found
    \/ ~html.next.forward
    \/ html.next.href.kind # "page"
    \/ html.next.href.page # n + 1

\* C3 (next-link sanity guard): a success answer whose page has an invalid
\* 'next' control is the last request of the run and the run is ending; the
\* pages are requested in non-decreasing order and a page that was fetched
\* with success is not requested again.
NextLinkSanityGuard ==
    /\ \A i \in DOMAIN requested :
          LET e == requested[i]
          IN  (IsOk(e.response) /\ NextInvalid(e.response.html, e.page)) =>
                  i = Len(requested) /\ pagerPc \in {"after", "done"}
    /\ \A i, j \in DOMAIN requested :
          i < j => /\ requested[i].page <= requested[j].page
                   /\ IsOk(requested[i].response) =>
                          requested[i].page < requested[j].page

\* a crawl ended on a page, not the first, whose 'next' link is a forward
\* link to a page other than the following one
NextLinkSanityGuardWitness ==
    /\ pagerPc = "done"
    /\ Len(requested) >= 2
    /\ LET e == requested[Len(requested)]
       IN  /\ IsOk(e.response)
           /\ e.response.html.next.found
           /\ e.response.html.next.forward
           /\ e.response.html.next.href.kind = "page"
           /\ e.response.html.next.href.page # e.page + 1

(***************************************************************************)
(* Claims about the downloader                                             *)
(***************************************************************************)
\* the URLs appended to the log since the run began
AppendedThisRun ==
    {downloadedLog[i] : i \in (Len(runStart.log) + 1)..Len(downloadedLog)}

\* the task of u has sent at least one GET for the post
PostRequested(u) ==
    /\ task[u].pc \notin {"none", "queued"}
    /\ ~(task[u].pc = "fetch" /\ task[u].attempt = 0)

\* C4 (progress write-after-success): a post whose processing threw after
\* its HTML was fetched (at the write of the post file, at the parse, or in
\* the media loop) is not in the part of the log written by this run.
NoLogAfterThrow ==
    \A u \in PostUrls :
        task[u].pc = "raised" => u \notin AppendedThisRun /\ task[u].html # None

\* a post threw in the media loop after one media file was downloaded and
\* before the next tag was handled, while the run went on to its end
NoLogAfterThrowWitness ==
    /\ dlPc = "done"
    /\ \E u \in PostUrls :
        /\ task[u].pc = "raised"
        /\ task[u].i = 2
        /\ task[u].i <= Len(task[u].html.media)
        /\ task[u].stats.media_downloaded = 1

\* C5 (a record only after full success, as the claim states it): every
\* post appended to the log by this run had its HTML retrieved and none of
\* its media downloads failed.
LoggedOnlyAfterFullSuccess ==
    \A u \in AppendedThisRun :
        task[u].html # None /\ task[u].stats.media_failed = 0

\* C6 (a not-found post is a definitive skip, as the claim states it): when
\* the run has ended, every post whose page answered 404 is in the log.
NotFoundPostIsLogged ==
    dlPc = "done" =>
        \A u \in PostUrls :
            task[u].exit = "not_found" => u \in Range(downloadedLog)

\* C7 (total failure of a post): a post whose HTML could not be fetched
\* within MAX_RETRIES attempts is not appended to the log and its post file
\* is not written by this run; in the next run it is in the working set, and
\* by the end of that run its page was requested again.
FetchFailureIsRetriedNextRun ==
    \A u \in PostUrls :
        /\ task[u].exit = "fetch_failed" =>
              /\ u \notin Range(downloadedLog)
              /\ task[u].attempt = MAX_RETRIES
              /\ \A f \in htmlFiles \ runStart.htmlFiles : f.slug # u
        /\ (dlRun >= 2 /\ runStart.exit[u] = "fetch_failed") =>
              /\ u \in DOMAIN urls_to_process_with_index
              /\ dlPc = "done" => PostRequested(u)

\* a post that failed in the first run was fetched and logged by the second
FetchFailureIsRetriedNextRunWitness ==
    /\ dlRun = 2
    /\ dlPc = "done"
    /\ \E u \in PostUrls :
        /\ runStart.exit[u] = "fetch_failed"
        /\ task[u].exit = "logged"

\* the tasks inside the append of log_url_as_downloaded
InAppend == {u \in PostUrls : task[u].pc \in {"locked", "appended"}}

\* C8 (appends are serialized): at most one task is inside the append, it is
\* the holder of the lock, and the log holds whole URL lines only, each
\* written by the task of that URL.
AppendsAreSerialized ==
    /\ Cardinality(InAppend) <= 1
    /\ \A u \in InAppend : file_lock = u
    /\ \A i \in DOMAIN downloadedLog : downloadedLog[i] \in PostUrls
    /\ \A u \in AppendedThisRun : task[u].pc \in {"appended", "returned"}

\* one task is inside the append while another waits for the lock
AppendsAreSerializedWitness ==
    \E u, v \in PostUrls :
        /\ u # v
        /\ task[u].pc = "locked"
        /\ task[v].pc = "log"

(***************************************************************************)
(* Claims about the dedup pass                                             *)
(***************************************************************************)
\* the positions of files_to_process the loop has handled and found images
ImagesDone ==
    {i \in 1..(dedupIdx - 1) :
        /\ i <= Len(files_to_process)
        /\ ContentOf(files_to_process[i]).kind = "image"}

HashAt(i) == ContentOf(files_to_process[i]).hash

NameAt(i) == file_map[files_to_process[i]]

\* C9 (dedup threshold, as the claim states it): any two images handled by
\* the pass map to the same filename when their hashes differ by less than
\* the threshold and to distinct filenames otherwise.
ThresholdDecidesEveryPair ==
    \A i, j \in ImagesDone :
        i # j =>
            IF Distance(HashAt(i), HashAt(j)) < HASH_DIFFERENCE_THRESHOLD
            THEN NameAt(i) = NameAt(j)
            ELSE NameAt(i) # NameAt(j)

\* C9 (dedup threshold, amended): the step that handles an image compares
\* its hash with the hashes registered so far.  If the smallest difference
\* is below the threshold, the image is mapped to the filename of a
\* registered hash at that smallest difference, nothing is copied and
\* nothing is registered; otherwise (or when nothing is registered yet) the
\* image is copied, mapped to the name of its copy and its hash registered
\* under that name.
ThresholdAgainstRegistered ==
    [][(/\ dedupPc = "loop"
        /\ dedupIdx' = dedupIdx + 1
        /\ ContentOf(files_to_process[dedupIdx]).kind = "image")
       => LET p == files_to_process[dedupIdx]
              h == ContentOf(p).hash
              dists == {Distance(h, processed_hashes[k].hash) :
                           k \in DOMAIN processed_hashes}
          IN  /\ p \in DOMAIN file_map'
              /\ IF \E d \in dists : d < HASH_DIFFERENCE_THRESHOLD
                 THEN /\ \E k \in DOMAIN processed_hashes :
                            /\ \A d \in dists :
                                  Distance(h, processed_hashes[k].hash) <= d
                            /\ file_map'[p] = processed_hashes[k].name
                      /\ store' = store
                      /\ processed_hashes' = processed_hashes
                 ELSE /\ processed_hashes' =
                            Append(processed_hashes,
                                   [hash |-> h, name |-> file_map'[p]])
                      /\ [name |-> file_map'[p], from |-> p] \in store'
      ]_vars

\* three images were handled: the second is within the threshold of the
\* first and shares its filename, the third is within the threshold of the
\* second only and has a filename of its own
ThresholdAgainstRegisteredWitness ==
    /\ dedupPc = "loop"
    /\ dedupIdx = 4
    /\ ImagesDone = {1, 2, 3}
    /\ Distance(HashAt(1), HashAt(2)) = 1
    /\ Distance(HashAt(2), HashAt(3)) = 1
    /\ Distance(HashAt(1), HashAt(3)) = 2
    /\ NameAt(1) = NameAt(2)
    /\ NameAt(3) # NameAt(2)

\* C10 (equal hashes): two images of the pass with the same hash (as two
\* byte-identical files have) map to the same filename, whatever was handled
\* between them.
EqualHashesShareName ==
    \A i, j \in ImagesDone :
        HashAt(i) = HashAt(j) => NameAt(i) = NameAt(j)

\* two images with the same hash are duplicates of the first registered
\* hash, and between them a hash was registered that is as near to theirs
EqualHashesShareNameWitness ==
    /\ dedupIdx = 5
    /\ ImagesDone = {1, 2, 3, 4}
    /\ HashAt(2) = HashAt(4)
    /\ Len(processed_hashes) = 2
    /\ processed_hashes[2].hash = HashAt(3)
    /\ Distance(HashAt(2), HashAt(1)) = 1
    /\ Distance(HashAt(4), HashAt(3)) = 1
    /\ NameAt(2) = NameAt(1)
    /\ NameAt(4) = NameAt(1)
    /\ NameAt(3) # NameAt(1)

\* C11 (the mapping is append-only): no step of the pass removes an entry
\* of file_map or changes the filename an original path is mapped to.
MappingIsAppendOnly ==
    [][\A q \in DOMAIN file_map :
          q \in DOMAIN file_map' /\ file_map'[q] = file_map[q]]_vars

\* the pass has ended with four entries, written one after the other, two of
\* them to the same filename
MappingIsAppendOnlyWitness ==
    /\ dedupPc = "done"
    /\ Cardinality(DOMAIN file_map) = 4
    /\ mapFile = file_map
    /\ \E q, r \in DOMAIN file_map : q # r /\ file_map[q] = file_map[r]

\* the positions of files_to_process the loop has handled and on which
\* python-magic or Pillow raised
CorruptDone ==
    {i \in 1..(dedupIdx - 1) :
        /\ i <= Len(files_to_process)
        /\ ContentOf(files_to_process[i]).kind = "corrupt"}

\* C12 (a corrupt file is copied through, as the claim states it): a file on
\* which fingerprinting raised has no hash registered under its name, is in
\* the store and in file_map, and the loop went on after it.
CorruptFileIsCopiedThrough ==
    \A i \in CorruptDone :
        /\ files_to_process[i] \in DOMAIN file_map
        /\ \E e \in store : e.from = files_to_process[i]
        /\ dedupIdx > i

(***************************************************************************)
(* Claims about running the pipeline twice                                 *)
(***************************************************************************)
\* C1 (idempotent resume, as the claim states it): the second run of the
\* pager and the second run of the downloader send no request.
SecondRunSendsNoRequest ==
    /\ pagerRun >= 2 => requested = <<>>
    /\ dlRun >= 2 => \A u \in PostUrls : ~PostRequested(u)

\* C1 (idempotent resume, amended): the second run of the pager requests no
\* page that the scanned-pages log held when it started, and the second run
\* of the downloader requests no post that the downloaded-permalinks log
\* held when it started; what the second run requests is what the first left
\* unrecorded.
SecondRunRequestsOnlyUnrecorded ==
    /\ pagerRun >= 2 =>
          \A i \in DOMAIN requested : requested[i].page \notin scanned_pages
    /\ dlRun >= 2 =>
          \A u \in PostUrls : PostRequested(u) => u \notin Range(runStart.log)

\* both scripts have run twice against the same listing pages and both logs
\* held entries when the second runs began; the second run of the pager
\* requested the page at which the first had ended
SecondRunRequestsOnlyUnrecordedWitness ==
    /\ pagerRun = 2
    /\ pagerPc = "done"
    /\ dlRun = 2
    /\ dlPc = "done"
    /\ scanned_pages # {}
    /\ runStart.log # <<>>
    /\ requested # <<>>
    /\ \A i \in DOMAIN requested : requested[i].response = Status(404)

(***************************************************************************)
(* Claims about the content rewriter                                       *)
(***************************************************************************)
\* C13 (the rewriter is idempotent, as the claim states it): applying
\* process_content to its own output, with the same mapping and toggles,
\* gives that output again: the same elements with the same href, src,
\* class and style.
RewriteIsIdempotent ==
    Len(outputs) >= 2 => outputs[2] = outputs[1]

\* the entries of file_map.json whose original path has the filename stem of
\* the last segment of url, and those of them under posts/<slug>/
EntriesOfStem(url) ==
    {k \in DOMAIN mapEntries :
        splitext(mapEntries[k].path.filename).root = splitext(Basename(url)).root}

EntriesOfPathStem(url, slug) ==
    {k \in EntriesOfStem(url) : mapEntries[k].path.slug = slug}

\* C14 (resolution order): the src of an image of the post with slug S is
\* resolved by the path stem posts/S/<stem> if the mapping has an entry of
\* that stem (the last one in the file when several have it), otherwise by
\* the filename stem alone (the first entry of that stem), and is rewritten
\* to WP_MEDIA_PATH with the filename of that entry; an image that resolves
\* in neither way keeps its src.
PathStemBeforeFilenameStem ==
    (Len(outputs) >= 1 /\ Len(outputs[1]) = Len(entry_body)) =>
        \A i \in DOMAIN entry_body :
            (entry_body[i].tag = "img" /\ entry_body[i].src # NoUrl) =>
                LET src == entry_body[i].src
                    own == EntriesOfPathStem(src, local_file_slug)
                    any == EntriesOfStem(src)
                IN  IF own # {}
                    THEN \E k \in own :
                            /\ \A j \in own : j <= k
                            /\ outputs[1][i].src = WP_MEDIA_PATH(mapEntries[k].name)
                    ELSE IF any # {}
                    THEN \E k \in any :
                            /\ \A j \in any : k <= j
                            /\ outputs[1][i].src = WP_MEDIA_PATH(mapEntries[k].name)
                    ELSE outputs[1][i].src = src

\* the mapping holds an entry of the image's filename stem under another
\* post first and the entry under the post itself second, with different
\* filenames, and the image got the filename of the second
PathStemBeforeFilenameStemWitness ==
    /\ Len(outputs) >= 1
    /\ Len(mapEntries) = 2
    /\ mapEntries[1].path = Path(<<"b">>, <<"x", ".", "jpg">>)
    /\ mapEntries[2].path = Path(local_file_slug, <<"x", ".", "jpg">>)
    /\ mapEntries[1].name # mapEntries[2].name
    /\ Len(entry_body) = 1
    /\ entry_body[1].tag = "img"
    /\ entry_body[1].src = Url("blog", <<"x", ".", "jpg">>, FALSE)
    /\ outputs[1][1].src = WP_MEDIA_PATH(mapEntries[2].name)

(* Claims about the Fetch Engine *)
\* the destination of the download_file call that task u is in
CallSavePath(u) ==
    MediaSavePath(generate_filename_from_url(u, task[u].post_index),
                  task[u].html.media[task[u].i])

InDownload(u) == task[u].pc \in {"dl_cleaned", "dl_original"}

\* the content type the probe declared: that of a HEAD answered with 200
Declared(head) ==
    IF ~head.exc /\ head.status_code = 200 THEN head.content_type ELSE ""

TypeTable == {"image/png", "image/gif", "application/pdf"}

ProcessesPage ==
    /\ pagerPc = "after"
    /\ response_content \notin {STOP, SKIP, None}
    /\ scannedFile' = Append(scannedFile, page_num)

\* the links that step appends to permalinks.txt
SavedLinks ==
    {permalinksFile'[i] : i \in (Len(permalinksFile) + 1)..Len(permalinksFile')}

MarkerLinks(html) == {a.url : a \in {b \in html.anchors : b.marker /\ b.inPrefix}}

StoredNames(u) ==
    {FinalSavePath(CallSavePath(u), head, get) : head \in HeadAnswers, get \in GetAnswers}

\* C17 (idempotent media resume): process_url never calls download_file for
\* a reference of which a file is in the post's media directory, under
\* whatever name download_file stores it.
StoredMediaIsSkipped ==
    [][\A u \in PostUrls :
          (task[u].pc = "media" /\ task'[u].pc \in {"dl_cleaned", "dl_original"})
              => StoredNames(u) \cap mediaFiles = {}]_vars

(* Claims about the ordinal of a post *)
\* the place of the first line of permalinks.txt that holds u
FirstSeen(u) ==
    CHOOSE i \in DOMAIN permalinksFile :
        /\ permalinksFile[i] = u
        /\ \A j \in 1..(i - 1) : permalinksFile[j] # u

\* the number of distinct permalinks first seen before u
Ordinal(u) == Cardinality({permalinksFile[j] : j \in 1..(FirstSeen(u) - 1)})

\* C18 (stable ordinal): the URLs a run takes up are those of the backlog,
\* each once, that the log did not hold; the ordinal of each of them, and of
\* every post file written in this run or an earlier one, is the number of
\* distinct permalinks that come before it in the backlog, whatever the log
\* holds and however the backlog has grown at its end.
OrdinalIsPlaceInBacklog ==
    /\ dlPc = "running" =>
          /\ DOMAIN urls_to_process_with_index = Range(get_post_urls) \ Range(runStart.log)
          /\ \A u \in DOMAIN urls_to_process_with_index :
                /\ urls_to_process_with_index[u] = Ordinal(u)
                /\ task[u].post_index = Ordinal(u)
    /\ \A f \in htmlFiles :
          /\ f.slug \in Range(permalinksFile)
          /\ f.idx = Ordinal(f.slug)

\* the second run of the downloader, started with the first post in the
\* log and with a backlog that holds a permalink twice, wrote the second
\* post under the ordinal 1
OrdinalIsPlaceInBacklogWitness ==
    /\ dlRun = 2
    /\ "u1" \in Range(runStart.log)
    /\ Len(permalinksFile) > Cardinality(Range(permalinksFile))
    /\ [idx |-> 1, slug |-> "u2"] \in htmlFiles \ runStart.htmlFiles

(* Claims about the retry loops *)
\* a download_file call of u got a not-found answer in this step and
\* returned False: the cleaned URL gives way to the original one, the
\* original URL is counted as failed; no file is written
NotFoundEndsCall(u) ==
    /\ mediaFiles' = mediaFiles
    /\ task'[u].dl = 0
    /\ task'[u].stats.media_downloaded = task[u].stats.media_downloaded
    /\ IF task[u].pc = "dl_cleaned"
       THEN /\ task'[u].pc = "dl_original"
            /\ task'[u].i = task[u].i
            /\ task'[u].stats = task[u].stats
       ELSE /\ task'[u].pc = "media"
            /\ task'[u].i = task[u].i + 1
            /\ task'[u].stats.media_failed = task[u].stats.media_failed + 1

\* C19 (bounded attempt loop): a download_file call that is going on has
\* made fewer than MAX_RETRIES passes, each with one GET at most, so it sends
\* at most MAX_RETRIES GETs; it goes on after a pass only if that pass got
\* neither a not-found answer nor a 200; and the pass that gets a not-found
\* answer, to the HEAD or to the GET, ends the call with failure.
BoundedAttemptLoop ==
    /\ [](\A u \in PostUrls :
            InDownload(u) =>
                /\ task[u].dl < MAX_RETRIES
                /\ task[u].dl > 0 => task[u].last \notin {"not_found", "ok", "none"})
    /\ [][\A u \in PostUrls :
            (InDownload(u) /\ task'[u] # task[u] /\ task'[u].last = "not_found")
                => NotFoundEndsCall(u)]_vars

\* the call for the original URL of a reference ended on a not-found answer
\* and the reference was counted as failed
BoundedAttemptLoopWitness ==
    \E u \in PostUrls :
        /\ task[u].pc = "media"
        /\ task[u].last = "not_found"
        /\ task[u].dl = 0
        /\ task[u].stats.media_failed = 1

\* C20 (retry only on transient failures): a fetch loop, of download_file or
\* of process_url, goes into another pass only after a 5xx answer or a
\* transport exception.
RetryOnlyAfterTransientFailure ==
    \A u \in PostUrls :
        /\ (InDownload(u) /\ task[u].dl > 0) =>
                task[u].last \in {"server_error", "exception"}
        /\ (task[u].pc = "fetch" /\ task[u].attempt > 0) =>
                task[u].last \in {"server_error", "exception"}

(* Claims about the fail-fast fetch and the cleaned URL *)
\* C21 (fail-fast fetch): a download_file call made with fail_fast_on_500
\* (the call for the cleaned URL) that is going on after a pass, and so
\* after a delay, did not get a 5xx answer in that pass; and the pass of such
\* a call that gets a 5xx answer to its GET ends the call with failure:
\* no file is written and the caller goes on to the original URL.
FailFastEndsOnServerError ==
    /\ [](\A u \in PostUrls :
            (task[u].pc = "dl_cleaned" /\ task[u].dl > 0)
                => task[u].last # "server_error")
    /\ [][\A u \in PostUrls :
            (task[u].pc = "dl_cleaned" /\ task'[u] # task[u]
                /\ task'[u].last = "server_error")
                => /\ mediaFiles' = mediaFiles
                   /\ task'[u].pc = "dl_original"
                   /\ task'[u].dl = 0
                   /\ task'[u].i = task[u].i
                   /\ task'[u].stats = task[u].stats]_vars

\* the first pass of the call for the cleaned URL got a 5xx answer and the
\* call for the original URL is about to begin
FailFastEndsOnServerErrorWitness ==
    \E u \in PostUrls :
        /\ task[u].pc = "dl_original"
        /\ task[u].dl = 0
        /\ task[u].last = "server_error"
        /\ mediaFiles = {}

\* the reference the media loop of u is at
CurrentRef(u) == task[u].html.media[task[u].i]

\* the reference was counted as downloaded, or as failed, in this step
CountedDownloaded(u) ==
    /\ task'[u].pc = "media"
    /\ task'[u].i = task[u].i + 1
    /\ task'[u].stats = [task[u].stats EXCEPT !.media_downloaded = @ + 1]

CountedFailed(u) ==
    /\ task'[u].pc = "media"
    /\ task'[u].i = task[u].i + 1
    /\ task'[u].stats = [task[u].stats EXCEPT !.media_failed = @ + 1]

\* C22 (cleaned URL first): the media loop begins with the cleaned URL
\* exactly for a platform image whose URL ends in a thumbnail suffix; the
\* call for the cleaned URL that wrote the file counts the reference as
\* downloaded and the original URL is not requested, the one that failed
\* hands over to the original URL with nothing counted; the call for the
\* original URL goes into another pass after a 5xx answer while passes are
\* left, and when it ends the reference is counted as downloaded if it
\* wrote the file and as failed otherwise.
CleanedThenOriginal ==
    [][\A u \in PostUrls :
        /\ (task[u].pc = "media" /\ InDownload(u)') =>
              (task'[u].pc = "dl_cleaned") =
                  (CurrentRef(u).is_image /\ CurrentRef(u).link.platform
                      /\ CurrentRef(u).link.thumb)
        /\ (task[u].pc = "dl_cleaned" /\ task'[u].pc # "dl_cleaned") =>
              IF task'[u].last = "ok"
              THEN CountedDownloaded(u)
              ELSE /\ task'[u].pc = "dl_original"
                   /\ task'[u].dl = 0
                   /\ task'[u].i = task[u].i
                   /\ task'[u].stats = task[u].stats
        /\ (task[u].pc = "dl_original" /\ task'[u] # task[u]) =>
              IF task'[u].last = "ok" THEN CountedDownloaded(u)
              ELSE IF task'[u].last = "not_found" THEN CountedFailed(u)
              ELSE IF task[u].dl + 1 < MAX_RETRIES
              THEN /\ task'[u].pc = "dl_original"
                   /\ task'[u].dl = task[u].dl + 1
                   /\ task'[u].stats = task[u].stats
              ELSE CountedFailed(u)]_vars

\* the cleaned URL of a thumbnail image failed and the call for the original
\* URL is in its second pass after a 5xx answer
CleanedThenOriginalWitness ==
    \E u \in PostUrls :
        /\ task[u].pc = "dl_original"
        /\ HasCleanedUrl(CurrentRef(u))
        /\ task[u].dl = 1
        /\ task[u].last = "server_error"

(* Claims about the crawl loop *)
\* the places in `requested` of the requests of this run for page p
RequestsOf(p) == {i \in DOMAIN requested : requested[i].page = p}

IsTransient(r) == r.exc \/ (500 <= r.status_code /\ r.status_code < 600)

\* the answer to the latest request of this run for page p
LastAnswer(p) ==
    requested[CHOOSE i \in RequestsOf(p) : \A j \in RequestsOf(p) : j <= i].response

\* every request for p but the latest was answered with a 5xx or an exception
EarlierWereTransient(p) ==
    \A i \in RequestsOf(p) :
        (\E j \in RequestsOf(p) : j > i) => IsTransient(requested[i].response)

\* the 'next' control of the fetched page passes the validation for page p
NextIsValid(html, p) ==
    /\ html.next.found
    /\ html.next.forward
    /\ html.next.href = Href("page", p + 1)

\* the outcome of the fetch of page_num, once the retry loop is left
FetchOutcome ==
    IF response_content = STOP THEN "Stop"
    ELSE IF response_content = SKIP \/ response_content = None THEN "Skip"
    ELSE "Continue"

\* C23 (Stop, Skip or Continue): while a page is being fetched every answer
\* so far was a 5xx or an exception and fewer than max_retries requests were
\* sent; when the fetch has ended, between 1 and max_retries requests were
\* sent, all but the latest answered with a 5xx or an exception, and the
\* outcome is Stop exactly after a 404, Continue exactly after a 200, Skip
\* after any other status at once and after max_retries answers of 5xx or
\* exception; the crawl ends on Stop, goes on to page_num + 1 without a
\* write after Skip, and after Continue goes on to page_num + 1 if the
\* 'next' control is valid and ends otherwise.
FetchEndsInStopSkipOrContinue ==
    /\ [](pagerPc = "fetch" =>
            /\ Cardinality(RequestsOf(page_num)) = retries
            /\ retries < max_retries
            /\ \A i \in RequestsOf(page_num) : IsTransient(requested[i].response))
    /\ [](pagerPc = "after" =>
            LET n == Cardinality(RequestsOf(page_num))
                r == LastAnswer(page_num)
            IN  /\ 1 <= n /\ n <= max_retries
                /\ EarlierWereTransient(page_num)
                /\ (FetchOutcome = "Stop") = (~r.exc /\ r.status_code = 404)
                /\ (FetchOutcome = "Continue") = (~r.exc /\ r.status_code = 200)
                /\ FetchOutcome = "Continue" => response_content = r.html
                /\ FetchOutcome = "Skip" =>
                      IF IsTransient(r) THEN n = max_retries ELSE TRUE)
    /\ [][pagerPc = "after" =>
            CASE FetchOutcome = "Stop" ->
                    /\ pagerPc' = "done"
                    /\ UNCHANGED <<page_num, scannedFile, permalinksFile>>
              [] FetchOutcome = "Skip" ->
                    /\ pagerPc' = "loop"
                    /\ page_num' = page_num + 1
                    /\ UNCHANGED <<scannedFile, permalinksFile>>
              [] FetchOutcome = "Continue" ->
                    IF NextIsValid(response_content, page_num)
                    THEN pagerPc' = "loop" /\ page_num' = page_num + 1
                    ELSE pagerPc' = "done" /\ page_num' = page_num]_vars

\* max_retries requests for a page were all answered with a 5xx or an
\* exception and the page is about to be skipped
FetchEndsInStopSkipOrContinueWitness ==
    /\ pagerPc = "after"
    /\ response_content = None
    /\ Cardinality(RequestsOf(page_num)) = max_retries
    /\ \A i \in RequestsOf(page_num) : IsTransient(requested[i].response)

(* Claims about the scanned-pages log *)
\* the links main() saves for a fetched page
LinksOfPage(html) ==
    IF MarkerLinks(html) # {} THEN MarkerLinks(html)
    ELSE {a.url : a \in {b \in html.anchors : b.dated}}

\* C24 (a page is recorded after its success only): every page number in the
\* scanned-pages log is that of a page that answered 200 and whose links
\* are all in the backlog; a page requested in this run whose latest answer
\* is not a 200, and any page whose settled answer is not a 200, is not in
\* the log; and a run that comes to a page number that the log did not
\* hold at its start fetches that page.
ScannedOnlyAfterSuccess ==
    /\ [](\A p \in Range(scannedFile) :
            /\ p <= MaxPage
            /\ pageSource[p] # None
            /\ IsOk(pageSource[p])
            /\ LinksOfPage(pageSource[p].html) \subseteq Range(permalinksFile))
    /\ [](\A p \in 1..MaxPage :
            /\ (RequestsOf(p) # {} /\ ~IsOk(LastAnswer(p))) => p \notin Range(scannedFile)
            /\ (pageSource[p] # None /\ ~IsOk(pageSource[p])) => p \notin Range(scannedFile))
    /\ [][(pagerPc = "loop" /\ page_num \notin scanned_pages) => pagerPc' = "fetch"]_vars

\* the first run skipped page 1 on a 403 and scanned page 2; the second run
\* has requested page 1 again, which is still not in the log
ScannedOnlyAfterSuccessWitness ==
    /\ pagerRun = 2
    /\ 2 \in scanned_pages
    /\ 1 \notin Range(scannedFile)
    /\ RequestsOf(1) # {}
    /\ LastAnswer(1) = Status(403)

\* C25 (a scanned page is stepped over): a run that comes to a page number
\* that is in the scanned-pages log goes on to the next page number without
\* a request and without a write to the backlog or to the log; a page that
\* was requested in this run and is in the log is one this run fetched with
\* a 200 and has left behind; and no page number is in the log twice.
ScannedPageIsSteppedOver ==
    /\ [][(pagerPc = "loop" /\ page_num \in Range(scannedFile)) =>
            /\ page_num' = page_num + 1
            /\ pagerPc' = "loop"
            /\ UNCHANGED <<requested, scannedFile, permalinksFile, permalinksExists>>]_vars
    /\ [](\A i \in DOMAIN requested :
            requested[i].page \in Range(scannedFile) =>
                /\ IsOk(LastAnswer(requested[i].page))
                /\ requested[i].page < page_num \/ pagerPc = "done")
    /\ [](\A i, j \in DOMAIN scannedFile : i # j => scannedFile[i] # scannedFile[j])

\* the second run has stepped over page 1, which the log held, and stands
\* at page 2 without a request sent
ScannedPageIsSteppedOverWitness ==
    /\ pagerRun = 2
    /\ pagerPc = "loop"
    /\ page_num = 2
    /\ 1 \in scanned_pages
    /\ 1 \in Range(scannedFile)
    /\ requested = <<>>

(* Claims about the downloader's run *)
\* the files of post u: its markup and what is in its media directory
FilesOf(u, html, media) ==
    {f \in html : f.slug = u} \cup {f \in media : f.dir.slug = u}

\* how often u is in the log
TimesLogged(u, log) == Cardinality({i \in DOMAIN log : log[i] = u})

\* C26 (a downloaded permalink is not submitted): in a run, a permalink
\* that the log held when the run began has no task, is not in the working
\* set and has sent no request; and no step of the run writes a file of it
\* or appends it to the log.
LoggedPermalinkIsNotSubmitted ==
    /\ [](dlRun >= 1 =>
            \A u \in Range(runStart.log) \cap PostUrls :
                /\ task[u] = NoTask
                /\ u \notin DOMAIN urls_to_process_with_index
                /\ ~PostRequested(u))
    /\ [][\A u \in Range(runStart.log) \cap PostUrls :
            /\ FilesOf(u, htmlFiles', mediaFiles') = FilesOf(u, htmlFiles, mediaFiles)
            /\ TimesLogged(u, downloadedLog') = TimesLogged(u, downloadedLog)]_vars

\* the second run began with the first post in the log and in the backlog,
\* has left it alone and has written the file of the other post
LoggedPermalinkIsNotSubmittedWitness ==
    /\ dlRun = 2
    /\ "u1" \in Range(runStart.log)
    /\ "u1" \in Range(permalinksFile)
    /\ task["u1"] = NoTask
    /\ \E f \in htmlFiles \ runStart.htmlFiles : f.slug = "u2"

\* the sum of the statistics of the tasks of the URLs in S
RECURSIVE SumOfStats(_)
SumOfStats(S) ==
    IF S = {} THEN ZeroStats
    ELSE LET u == CHOOSE v \in S : TRUE
         IN  [posts_processed |-> task[u].stats.posts_processed
                                    + SumOfStats(S \ {u}).posts_processed,
              media_downloaded |-> task[u].stats.media_downloaded
                                    + SumOfStats(S \ {u}).media_downloaded,
              media_failed |-> task[u].stats.media_failed
                                    + SumOfStats(S \ {u}).media_failed]

Submitted == DOMAIN urls_to_process_with_index

\* C27 (failure isolation): the step in which a task raises leaves the run
\* going and every other task as it was; the run is finished only when
\* every submitted task has returned or raised; and the totals of a finished
\* run are the sums of the statistics of the tasks that returned.
RaiseDoesNotStopTheBatch ==
    /\ [][\A u \in PostUrls :
            (task[u].pc # "raised" /\ task'[u].pc = "raised") =>
                /\ dlPc' = "running"
                /\ \A v \in PostUrls \ {u} : task'[v] = task[v]
                /\ total_stats' = total_stats]_vars
    /\ []((dlPc = "done" /\ dlOutcome = "finished") =>
            /\ \A u \in Submitted : task[u].pc \in {"returned", "raised"}
            /\ total_stats = SumOfStats({u \in Submitted : task[u].pc = "returned"}))

\* a finished run of two posts: the first raised, the second was processed
\* and logged, and the totals are those of the second
RaiseDoesNotStopTheBatchWitness ==
    /\ dlPc = "done"
    /\ dlOutcome = "finished"
    /\ task["u1"].pc = "raised"
    /\ task["u2"].pc = "returned"
    /\ task["u2"].exit = "logged"
    /\ total_stats = task["u2"].stats
    /\ total_stats.posts_processed = 1

(* Claims about the interrupt *)
\* C28 (cancellation): once the interrupt has reached the downloader no
\* task that was not started is started, so every permalink appended to the
\* log from then on is that of a task in flight at the interrupt.
NoTaskStartsAfterInterrupt ==
    [][dlPc = "interrupted" =>
          \A u \in PostUrls : task[u].pc = "queued" => task'[u].pc = "queued"]_vars

(* Claims about the missing backlog *)
\* C29 (a missing backlog is fatal): a run started without permalinks.txt
\* ends in an outcome of its own, not in 'all posts already downloaded';
\* it starts no task, sends no request and leaves the log as it was.
MissingBacklogIsFatal ==
    (dlRun >= 1 /\ ~permalinksExists) =>
        /\ dlPc = "done"
        /\ dlOutcome # "all_downloaded"
        /\ \A u \in PostUrls : task[u] = NoTask
        /\ downloadedLog = runStart.log

(* Claims about the asset resolver *)
\* C30 (asset resolution never aborts a post): the step of process_url that
\* resolves the assets always leads to the parse of the markup, whatever
\* asset failed and also when the resolver threw; the markup that is parsed
\* has only references of assets that are on disk rewritten, among them
\* every asset the call found on disk, and none when the resolver threw; the step does not touch the media files or
\* the log; and media discovery begins only from the parsed markup, with
\* asset resolution behind it.
AssetFailureDoesNotAbortPost ==
    /\ [][\A u \in PostUrls :
            (task[u].pc = "assets" /\ task'[u] # task[u]) =>
                /\ task'[u].pc = "assets_fetch"
                /\ task'[u].exit = task[u].exit
                /\ UNCHANGED <<assetFiles, htmlFiles, mediaFiles, downloadedLog>>]_vars
    /\ [][\A u \in PostUrls :
            (task[u].pc = "assets_fetch" /\ task'[u] # task[u]) =>
                /\ task'[u].pc = "parse"
                /\ task'[u].exit = task[u].exit
                /\ task'[u].modified_html.rewritten \subseteq
                      task[u].html.asset \cap assetFiles'
                /\ task'[u].modified_html.threw =>
                      task'[u].modified_html.rewritten = {}
                /\ ~task'[u].modified_html.threw =>
                      task[u].assets_downloaded \subseteq
                          task'[u].modified_html.rewritten
                /\ assetFiles \subseteq assetFiles'
                /\ mediaFiles' = mediaFiles
                /\ downloadedLog' = downloadedLog]_vars
    /\ [][\A u \in PostUrls :
            (task[u].pc # "media" /\ task'[u].pc = "media") =>
                task[u].pc \in {"parse", "dl_cleaned", "dl_original"}]_vars
    /\ [](\A u \in PostUrls :
            task[u].pc \in {"media", "dl_cleaned", "dl_original"} =>
                task[u].modified_html = NoMarkup)

\* the stylesheet of the post was stored and its reference rewritten, its
\* script could not be resolved and keeps its URL, and the markup is about
\* to be parsed
AssetFailureDoesNotAbortPostWitness ==
    \E u \in PostUrls :
        /\ task[u].pc = "parse"
        /\ task[u].html.asset = {"css", "js"}
        /\ assetFiles = {"css"}
        /\ task[u].modified_html = [threw |-> FALSE, rewritten |-> {"css"}]

\* C31 (a shared asset is fetched and written at most once per run): a worker
\* that stores an asset file in the shared assets directory stores it where
\* no file was, so no two workers of a run both fetch and write the same
\* asset.
AssetStoredAtMostOnce ==
    [][\A u \in PostUrls :
         (task[u].pc = "assets_fetch" /\ task'[u].pc = "parse"
            /\ ~task'[u].modified_html.threw) =>
                (task'[u].modified_html.rewritten \ task[u].assets_downloaded)
                    \cap assetFiles = {}]_vars

\* C32 (signature sniffing): in every download_file call whose destination
\* has no extension, for every answer that makes it write the file and
\* declares no content type of the table: a body with the GIF signature is
\* stored as .gif, a body with the PDF signature as .pdf, and a body with
\* no known signature without an extension.
SignatureResolvesExtension ==
    \A u \in PostUrls :
        (InDownload(u) /\ CallSavePath(u).ext = NoExt) =>
            \A head \in HeadAnswers, get \in GetAnswers :
                (/\ AttemptOutcome(head, get, task[u].pc = "dl_cleaned") = "true"
                 /\ Declared(head) \notin TypeTable) =>
                    LET final == FinalSavePath(CallSavePath(u), head, get)
                    IN  /\ get.content = "GIF89a" => final.ext = ".gif"
                        /\ get.content = "%PDF" => final.ext = ".pdf"
                        /\ get.content = "plain" => final.ext = NoExt

\* a link with an href that matches a popup-viewer pattern
IsPopup(node) == node.tag = "a" /\ node.href # NoUrl /\ IsPopupLink(node)

\* the elements of the content that the passes do not take out of the tree
\* when popups are scrubbed: all but the editor's note and the empty popup
\* links
KeptWhenScrubbing(body) ==
    SelectSeq(body, LAMBDA n : ~(n.tag = "note" \/ (IsPopup(n) /\ n.inner = "empty")))

\* C33 as the claim states it: with popup scrubbing enabled no popup link
\* remains in the output of process_content.
NoPopupLinkRemains ==
    (Len(outputs) >= 1 /\ args.scrub_popups) =>
        \A j \in DOMAIN outputs[1] : ~IsPopup(outputs[1][j])

\* C33 (popup links, amended): with popup scrubbing enabled, an empty popup
\* link is removed, a popup link around an image is unwrapped (the image
\* stays, without a link), and a popup link that holds text only stays as
\* it was: no popup link is handled by the internal-link or the mapping
\* rule, so its href is never rewritten.
PopupLinkUnwrappedRemovedOrKept ==
    (Len(outputs) >= 1 /\ args.scrub_popups) =>
        LET kept == KeptWhenScrubbing(entry_body)
        IN  /\ Len(outputs[1]) = Len(kept)
            /\ \A j \in DOMAIN kept :
                  IsPopup(kept[j]) =>
                      IF kept[j].inner = "img"
                      THEN /\ outputs[1][j].tag = "img"
                           /\ outputs[1][j].href = NoUrl
                      ELSE outputs[1][j] = kept[j]

\* a popup link under the blog URL that holds text and whose file is in the
\* mapping went through the link pass, with --blog_url given, and is in the
\* output as it was
PopupLinkUnwrappedRemovedOrKeptWitness ==
    /\ Len(outputs) >= 1
    /\ args.scrub_popups /\ args.blog_url
    /\ \E j \in DOMAIN entry_body :
          /\ IsPopup(entry_body[j])
          /\ entry_body[j].inner = "text"
          /\ entry_body[j].href.base = "blog"
          /\ find_file_in_map(entry_body[j].href, local_file_slug,
                              stem_map, basename_map) # NoName
    /\ outputs[1] = entry_body

\* the elements of the content that the passes leave in the tree
Surviving(body, a) ==
    SelectSeq(body, LAMBDA n : ~(n.tag = "note"
                                   \/ (a.scrub_popups /\ IsPopup(n) /\ n.inner = "empty")))

\* a link that rule 1 does not handle
IsOrdinaryLink(node, a) ==
    node.tag = "a" /\ node.href # NoUrl /\ ~(a.scrub_popups /\ IsPopupLink(node))

\* the link is under the blog URL and is not a media file
IsInternal(node) == node.href.base = "blog" /\ ~IsMediaHref(node.href)

Resolved(node) == find_file_in_map(node.href, local_file_slug, stem_map, basename_map)

Slug(node) == splitext(Basename(node.href)).root

\* C34 as the claim states it: with the blog URL given, every non-popup
\* link under it that is not a media file gets the relative post path; every
\* other non-popup link that resolves through the mapping has its href
\* rewritten to the canonical media location; a link that resolves nowhere
\* keeps its href.
EveryLinkIsRewrittenByOneRule ==
    (Len(outputs) >= 1 /\ args.blog_url) =>
        LET kept == Surviving(entry_body, args)
        IN  /\ Len(outputs[1]) = Len(kept)
            /\ \A j \in DOMAIN kept :
                  IsOrdinaryLink(kept[j], args) =>
                      IF IsInternal(kept[j])
                      THEN outputs[1][j].href = PostPath(Slug(kept[j]))
                      ELSE IF Resolved(kept[j]) # NoName
                      THEN outputs[1][j].href = WP_MEDIA_PATH(Resolved(kept[j]))
                      ELSE outputs[1][j].href = kept[j].href

\* C34 (link rules in priority order, amended): a non-popup link under the
\* given blog URL that is not a media file and whose last path segment has a
\* name gets the relative post path, whether or not it resolves through the
\* mapping; every other non-popup link that resolves through the mapping is
\* unwrapped when it wraps an image and has its href rewritten to the
\* canonical media location otherwise; a link that resolves nowhere keeps
\* its href.
LinkRulesInPriorityOrder ==
    Len(outputs) >= 1 =>
        LET kept == Surviving(entry_body, args)
        IN  /\ Len(outputs[1]) = Len(kept)
            /\ \A j \in DOMAIN kept :
                  IsOrdinaryLink(kept[j], args) =>
                      IF args.blog_url /\ IsInternal(kept[j]) /\ Slug(kept[j]) # <<>>
                      THEN /\ outputs[1][j].tag = "a"
                           /\ outputs[1][j].href = PostPath(Slug(kept[j]))
                      ELSE IF Resolved(kept[j]) # NoName
                      THEN IF kept[j].inner = "img"
                           THEN /\ outputs[1][j].tag = "img"
                                /\ outputs[1][j].href = NoUrl
                           ELSE /\ outputs[1][j].tag = "a"
                                /\ outputs[1][j].href = WP_MEDIA_PATH(Resolved(kept[j]))
                      ELSE /\ outputs[1][j].tag = "a"
                           /\ outputs[1][j].href = kept[j].href

\* a link to a post under the blog URL whose name is also the stem of a
\* mapped file went through the link pass and has the relative post path
LinkRulesInPriorityOrderWitness ==
    /\ Len(outputs) >= 1
    /\ args.blog_url
    /\ \E j \in DOMAIN entry_body :
          /\ IsOrdinaryLink(entry_body[j], args)
          /\ IsInternal(entry_body[j])
          /\ Resolved(entry_body[j]) # NoName
          /\ j \in DOMAIN outputs[1]
          /\ outputs[1][j].href = PostPath(Slug(entry_body[j]))

\* C35 (canonical names are unique): whenever the pass copies a file into
\* the store, the copy goes under a name that no store file had, every file
\* that was in the store is still there, and the accepted file is mapped to
\* that name: no copy overwrites a store file and no two accepted files
\* share a canonical filename.
CopyNeverOverwrites ==
    [][store' # store =>
          LET original_path == files_to_process[dedupIdx]
          IN  /\ store \subseteq store'
              /\ \E e \in store' \ store :
                    /\ store' = store \cup {e}
                    /\ e.name \notin StoreNames
                    /\ e.from = original_path
                    /\ file_map'[original_path] = e.name]_vars

\* the step handles an image that is within the threshold of a registered
\* fingerprint
HandlesDuplicate ==
    /\ dedupPc = "loop"
    /\ dedupIdx' = dedupIdx + 1
    /\ ContentOf(files_to_process[dedupIdx]).kind = "image"
    /\ \E k \in DOMAIN processed_hashes :
          Distance(ContentOf(files_to_process[dedupIdx]).hash,
                   processed_hashes[k].hash) < HASH_DIFFERENCE_THRESHOLD

\* C36 (the mapping points into the store): at every point of a pass, and
\* in file_map.json when the pass has ended, every mapping value is the name
\* of a file the pass copied into the store; and the step that handles a
\* duplicate adds exactly one mapping entry, to the canonical filename of
\* the best match, and adds neither a file nor a fingerprint.
MappingPointsIntoStore ==
    /\ [](/\ \A q \in DOMAIN file_map :
               \E e \in store : e.name = file_map[q] /\ e.from \in DOMAIN file_map
          /\ (dedupPc = "done" /\ sourceExists) => mapFile = file_map)
    /\ [][HandlesDuplicate =>
             LET original_path == files_to_process[dedupIdx]
                 match == BestMatch(ContentOf(original_path).hash, processed_hashes)
             IN  /\ store' = store
                 /\ processed_hashes' = processed_hashes
                 /\ original_path \notin DOMAIN file_map
                 /\ DOMAIN file_map' = DOMAIN file_map \cup {original_path}
                 /\ \A q \in DOMAIN file_map : file_map'[q] = file_map[q]
                 /\ \E k \in DOMAIN processed_hashes :
                       /\ processed_hashes[k].hash = match.best_match_hash
                       /\ file_map'[original_path] = processed_hashes[k].name]_vars

\* the pass has ended: three images went into the store and a fourth, a
\* duplicate, was mapped to the file of one of them
MappingPointsIntoStoreWitness ==
    /\ dedupPc = "done"
    /\ mapFile = file_map
    /\ Cardinality(DOMAIN file_map) = 4
    /\ Cardinality(store) = 3
    /\ Len(processed_hashes) = 2
    /\ ImagesDone # {}
    /\ \E i \in ImagesDone :
          \A e \in store : e.from # files_to_process[i]

\* C37 (registered fingerprints): at every point of a pass any two
\* registered fingerprints differ by at least the threshold, each is
\* registered once, under the name of a store file, and no step removes a
\* registered fingerprint or changes the canonical filename it maps to.
RegisteredFingerprintsStayApart ==
    /\ [](\A i, j \in DOMAIN processed_hashes :
              i # j => Distance(processed_hashes[i].hash, processed_hashes[j].hash)
                           >= HASH_DIFFERENCE_THRESHOLD)
    /\ [](\A i \in DOMAIN processed_hashes : processed_hashes[i].name \in StoreNames)
    /\ [][dedupPc = "loop" =>
             /\ Len(processed_hashes') >= Len(processed_hashes)
             /\ \A i \in DOMAIN processed_hashes :
                   processed_hashes'[i] = processed_hashes[i]]_vars

\* two fingerprints are registered under different filenames, and an image
\* handled after them, within the threshold of one, was registered under no
\* name
RegisteredFingerprintsStayApartWitness ==
    /\ dedupPc = "loop"
    /\ Len(processed_hashes) = 2
    /\ processed_hashes[1].name # processed_hashes[2].name
    /\ Distance(processed_hashes[1].hash, processed_hashes[2].hash)
          = HASH_DIFFERENCE_THRESHOLD
    /\ \E i \in ImagesDone :
          /\ i > 2
          /\ \A k \in DOMAIN processed_hashes : processed_hashes[k].hash # HashAt(i)

\* the places of processed_hashes whose fingerprint is as near to h as any
NearestRegistered(h) ==
    {k \in DOMAIN processed_hashes :
        \A m \in DOMAIN processed_hashes :
            Distance(h, processed_hashes[k].hash) <= Distance(h, processed_hashes[m].hash)}

\* C38 (tie-break of the best match): the step that handles a duplicate maps
\* it to the filename of the earliest-registered fingerprint among those at
\* the smallest distance from its own.
TieGoesToEarliestRegistered ==
    [][HandlesDuplicate =>
          LET original_path == files_to_process[dedupIdx]
              nearest == NearestRegistered(ContentOf(original_path).hash)
              earliest == CHOOSE k \in nearest : \A m \in nearest : k <= m
          IN  file_map'[original_path] = processed_hashes[earliest].name]_vars

\* an image at distance 1 from both registered fingerprints was handled after
\* both were registered and has the filename of the first
TieGoesToEarliestRegisteredWitness ==
    /\ Len(processed_hashes) = 2
    /\ processed_hashes[1].name # processed_hashes[2].name
    /\ \E i \in ImagesDone :
          /\ \E j1, j2 \in ImagesDone :
                /\ j1 < j2 /\ j2 < i
                /\ HashAt(j1) = processed_hashes[1].hash
                /\ HashAt(j2) = processed_hashes[2].hash
          /\ Distance(HashAt(i), processed_hashes[1].hash) = 1
          /\ Distance(HashAt(i), processed_hashes[2].hash) = 1
          /\ NameAt(i) = processed_hashes[1].name

\* C39 (one task per permalink): in a run, whatever the backlog repeats, a
\* permalink has one task: a worker begins it only from the queue and it
\* never goes back to the queue; a post file is written only by the task of
\* its permalink, under a name no other task of the run writes; and the run
\* appends a permalink to the log at most once.
OneTaskPerPermalink ==
    /\ [][dlRun' = dlRun =>
             \A u \in PostUrls :
                /\ (task[u].pc # "fetch" /\ task'[u].pc = "fetch") => task[u].pc = "queued"
                /\ task'[u].pc = "queued" => task[u].pc = "queued"]_vars
    /\ [][\A f \in htmlFiles' \ htmlFiles :
             \E u \in DOMAIN urls_to_process_with_index :
                /\ task'[u] # task[u]
                /\ f = generate_filename_from_url(u, urls_to_process_with_index[u])
                /\ \A v \in DOMAIN urls_to_process_with_index \ {u} :
                      f # generate_filename_from_url(v, urls_to_process_with_index[v])]_vars
    /\ [](dlRun >= 1 =>
            \A u \in PostUrls :
                TimesLogged(u, downloadedLog) <= TimesLogged(u, runStart.log) + 1)

\* the backlog holds the same permalink twice; the run has ended with one
\* post file and one line in the log
OneTaskPerPermalinkWitness ==
    /\ permalinksFile = <<"u1", "u1">>
    /\ dlRun = 1
    /\ dlPc = "done"
    /\ downloadedLog = <<"u1">>
    /\ htmlFiles = {generate_filename_from_url("u1", 0)}

\* a run of the pager is under way
PagerRunning == pagerPc \in {"loop", "fetch", "after"}

\* C40 (the crawl goes forward and ends at a not-found page): within a run
\* page_num only goes from a page to the page after it, so the pages are
\* requested in non-decreasing order and none behind page_num; and when a
\* page that is not behind page_num and not in the scanned-pages log answers
\* not-found, the run eventually ends, whatever the pages before it answer
\* (in the model the page after MaxPage always answers not-found).
CrawlEndsAtNotFound ==
    /\ [][pagerRun' = pagerRun => page_num' \in {page_num, page_num + 1}]_vars
    /\ [](\A i, j \in DOMAIN requested :
            /\ requested[i].page <= page_num
            /\ i < j => requested[i].page <= requested[j].page)
    /\ \A p \in 1..(MaxPage + 1) :
          (/\ PagerRunning
           /\ page_num <= p
           /\ p \notin scanned_pages
           /\ PageAnswer(p) = Status(404)) ~> (pagerPc = "done")

\* a run has ended on the not-found answer of the third page, after a first
\* page that was refused and skipped and a second that was fetched
CrawlEndsAtNotFoundWitness ==
    /\ pagerPc = "done"
    /\ Len(requested) = 3
    /\ requested[1] = [page |-> 1, response |-> Status(403)]
    /\ requested[2].page = 2 /\ IsOk(requested[2].response)
    /\ requested[3] = [page |-> 3, response |-> Status(404)]

====
